---- MODULE Spec2Model ----
(***************************************************************************)
(* A model of the dogfight game: the frame scheduler (game.py), the entity *)
(* model (base.py), the vector helpers (utils.py) and the relay server     *)
(* (server.py).                                                            *)
(*                                                                         *)
(* Coordinates are held as integers in units of 1/COORD_UNITS of a cell:   *)
(* resolve_direction rounds cosine and sine to 5 decimals, and speeds are  *)
(* multiples of 0.5, so every coordinate the program computes is a whole   *)
(* number of these units.  Angles are held as a whole number of            *)
(* turning_circle steps of pi/8.  The clock is counted in frame periods.   *)
(***************************************************************************)
EXTENDS Integers, Sequences, FiniteSets, TLC

\* ------------------------------------------------------------------ bounds
\* Ticks played with free keyboard input once the cruise is over.
FreeTicks == 4
\* Ticks at the start of the game with free (EarlyKeys) input.
EarlyTicks == 1
\* Ticks flown without any key pressed, after the early ticks.
CruiseTicks == 115
\* Gun configuration of the planes (planes.py hands it to Plane; the gun's
\* values are parameters of the model).
GunCapacity == 1
GunReloadTime == 2
GunDamage == 100

\* --------------------------------------------------------------- constants
ARENA_HEIGHT == 20
ARENA_WIDTH == 80
TERM_HEIGHT == 32
TERM_WIDTH == 100
Y_SHIFT == (TERM_HEIGHT \div 2) - (ARENA_HEIGHT \div 2)
X_SHIFT == (TERM_WIDTH \div 2) - (ARENA_WIDTH \div 2)
ULY == 0 + Y_SHIFT
ULX == 0 + X_SHIFT
LRY == ARENA_HEIGHT + Y_SHIFT
LRX == ARENA_WIDTH + X_SHIFT

\* round(_, 5) of resolve_direction, in units per 1.0
DIR_UNITS == 100000
\* speeds are held in halves: a plane flies 0.5 cells a tick, a cannon 1.0
PLANE_SPEED2 == 1
CANNON_SPEED2 == 2
COORD_UNITS == 2 * DIR_UNITS
\* angles are held in steps of pi/8; a plane's turning_circle is one step
TURNING_CIRCLE == 1
FULL_TURN == 16

FULL_HULL == 100
SMOKE_HULL == 40
EXPLOSION_FRAMES == 18
SMOKE_FRAMES == 14

NoneT == -1

Players == {1, 2}
Other(i) == 3 - i

\* ----------------------------------------------------------------- vectors
Vec(y, x) == [y |-> y, x |-> x]

\* Python's round(): to the nearest integer, a tie to the even one.
RoundUnits(v, units) ==
    LET q == v \div units
        r == v % units
    IN  IF 2 * r < units THEN q
        ELSE IF 2 * r > units THEN q + 1
        ELSE IF q % 2 = 0 THEN q ELSE q + 1

\* Vector.resolve of a coordinate vector: the cell it is drawn in.
resolve(c) == Vec(RoundUnits(c.y, COORD_UNITS), RoundUnits(c.x, COORD_UNITS))

\* cos and sin of k * pi / 8, rounded to 5 decimals, in DIR_UNITS.
CosTable == <<100000, 92388, 70711, 38268, 0, -38268, -70711, -92388,
              -100000, -92388, -70711, -38268, 0, 38268, 70711, 92388>>
SinTable == <<0, 38268, 70711, 92388, 100000, 92388, 70711, 38268,
              0, -38268, -70711, -92388, -100000, -92388, -70711, -38268>>

\* resolve_direction(angle): y is the cosine, x the sine.
resolve_direction(angle) ==
    Vec(CosTable[(angle % FULL_TURN) + 1], SinTable[(angle % FULL_TURN) + 1])

\* round(resolve_direction(angle)): the direction in whole cells.
round_direction(angle) ==
    LET d == resolve_direction(angle)
    IN  Vec(RoundUnits(d.y, DIR_UNITS), RoundUnits(d.x, DIR_UNITS))

\* Advance by the direction rounded to whole cells.
Advance_cells(c, angle, speed2) ==
    LET d == round_direction(angle)
    IN  Vec(c.y + d.y * DIR_UNITS * speed2, c.x + d.x * DIR_UNITS * speed2)

\* coordinates + resolve_direction(angle) * speed
Advance(c, angle, speed2) ==
    LET d == resolve_direction(angle)
    IN  Vec(c.y + d.y * speed2, c.x + d.x * speed2)

Cell(y, x) == Vec(y * COORD_UNITS, x * COORD_UNITS)

\* ------------------------------------------------------ starting positions
START_COORDS_Y == ULY + (ARENA_HEIGHT \div 2)
START_COORDS_ONE == Cell(START_COORDS_Y, ULX + (ARENA_WIDTH \div 4))
START_COORDS_TWO == Cell(START_COORDS_Y, LRX - (ARENA_WIDTH \div 4))
START_ANGLE_ONE == -4
START_ANGLE_TWO == 4
start_coords == <<START_COORDS_ONE, START_COORDS_TWO>>
start_angles == <<START_ANGLE_ONE, START_ANGLE_TWO>>

\* -------------------------------------------------------------------- Gun
\* Gun.__post_init__: a full chamber, never fired, not reloading.
NewGun(capacity, reload_time, damage) ==
    [capacity |-> capacity, reload_time |-> reload_time, damage |-> damage,
     rounds_in_chamber |-> capacity, last_fired |-> NoneT,
     is_reloading |-> FALSE]

\* Gun.reload_chamber evaluates time.monotonic() - self.last_fired first:
\* with last_fired None the subtraction raises TypeError.
reload_raises(g) == g.last_fired = NoneT

\* time_elapsed with the comparison not strict.
time_elapsed_at(g, clock) == clock - g.last_fired >= g.reload_time

time_elapsed(g, clock) == clock - g.last_fired > g.reload_time

\* reload_chamber filling the chamber without ending the reload.
reload_chamber_unended(g, force, clock) ==
    IF time_elapsed(g, clock) \/ force
    THEN [g EXCEPT !.rounds_in_chamber = g.capacity]
    ELSE g

\* Gun.reload_chamber(force), for a gun on which it does not raise.
reload_chamber(g, force, clock) ==
    IF time_elapsed(g, clock) \/ force
    THEN [g EXCEPT !.rounds_in_chamber = g.capacity, !.is_reloading = FALSE]
    ELSE g

\* fires testing the rounds left instead of is_reloading.
fires_on_rounds(g) == g.rounds_in_chamber >= 0

\* Gun.fire returns a Cannon exactly when the gun is not reloading.
fires(g) == ~g.is_reloading

\* fire marking the gun as reloading one round early.
fire_early(g, clock) ==
    IF fires(g)
    THEN LET r == g.rounds_in_chamber - 1
         IN  IF r <= 1
             THEN [g EXCEPT !.rounds_in_chamber = r, !.last_fired = clock,
                            !.is_reloading = TRUE]
             ELSE [g EXCEPT !.rounds_in_chamber = r]
    ELSE g

\* Gun.fire: the gun after the call.
fire(g, clock) ==
    IF fires(g)
    THEN LET r == g.rounds_in_chamber - 1
         IN  IF r = 0
             THEN [g EXCEPT !.rounds_in_chamber = r, !.last_fired = clock,
                            !.is_reloading = TRUE]
             ELSE [g EXCEPT !.rounds_in_chamber = r]
    ELSE g

\* ------------------------------------------------------------ animations
\* An AnimatedSprite: its kind, where it was spawned, the angle offset it
\* was spawned with (i of i/3 or i/5), the frames left.  The drift of a
\* sprite after it is spawned only decides where its glyph is drawn and is
\* left out.
NewAnim(kind, coordinates, offset) ==
    [kind |-> kind, coordinates |-> coordinates, offset |-> offset,
     frames |-> IF kind = "PlaneSmoke" THEN SMOKE_FRAMES ELSE EXPLOSION_FRAMES,
     for_deletion |-> FALSE]

\* next_frame marking the sprite as it consumes its last frame.
anim_next_frame_marking(a) ==
    IF a.frames > 1 THEN [a EXCEPT !.frames = @ - 1]
    ELSE [a EXCEPT !.frames = 0, !.for_deletion = TRUE]

\* AnimatedSprite.next_frame: one frame is consumed, or the sprite is marked.
anim_next_frame(a) ==
    IF a.frames > 0 THEN [a EXCEPT !.frames = @ - 1]
    ELSE [a EXCEPT !.for_deletion = TRUE]

\* ------------------------------------------------------------ projectiles
\* _hit_boundary with a bound hit only once it is passed.
_hit_boundary_passed(c) ==
    [top |-> c.y < ULY, right |-> c.x > LRX,
     bottom |-> c.y > LRY, left |-> c.x < ULX]

\* Projectile._hit_boundary of a cell.
_hit_boundary(c) ==
    [top |-> c.y <= ULY, right |-> c.x >= LRX,
     bottom |-> c.y >= LRY, left |-> c.x <= ULX]

any_hit(bh) == bh.top \/ bh.right \/ bh.bottom \/ bh.left


\* _react_to_boundary shifting by the arena height on both axes.
_react_to_boundary_square(e, infinite) ==
    LET bh == _hit_boundary(resolve(e.coordinates))
        dy == (IF bh.top THEN ARENA_HEIGHT ELSE 0)
              - (IF bh.bottom THEN ARENA_HEIGHT ELSE 0)
        dx == (IF bh.left THEN ARENA_HEIGHT ELSE 0)
              - (IF bh.right THEN ARENA_HEIGHT ELSE 0)
    IN  IF infinite
        THEN [e EXCEPT !.coordinates =
                 Vec(@.y + dy * COORD_UNITS, @.x + dx * COORD_UNITS)]
        ELSE IF any_hit(bh) THEN [e EXCEPT !.for_deletion = TRUE] ELSE e

\* Projectile._react_to_boundary: an infinite entity is moved by one arena
\* span on each axis whose bound it reached; any other is marked.
_react_to_boundary(e, infinite) ==
    LET bh == _hit_boundary(resolve(e.coordinates))
        dy == (IF bh.top THEN ARENA_HEIGHT ELSE 0)
              - (IF bh.bottom THEN ARENA_HEIGHT ELSE 0)
        dx == (IF bh.left THEN ARENA_WIDTH ELSE 0)
              - (IF bh.right THEN ARENA_WIDTH ELSE 0)
    IN  IF infinite
        THEN [e EXCEPT !.coordinates =
                 Vec(@.y + dy * COORD_UNITS, @.x + dx * COORD_UNITS)]
        ELSE IF any_hit(bh) THEN [e EXCEPT !.for_deletion = TRUE] ELSE e

\* Projectile._move
_move(e, speed2, infinite) ==
    _react_to_boundary(
        [e EXCEPT !.coordinates = Advance(@, e.angle_of_attack, speed2)],
        infinite)

\* _change_pitch keeping the angle within one full turn.
_change_pitch_wrapped(p, up) ==
    [p EXCEPT !.angle_of_attack =
        (IF up THEN @ + TURNING_CIRCLE ELSE @ - TURNING_CIRCLE) % FULL_TURN]

\* Projectile._change_pitch
_change_pitch(p, up) ==
    [p EXCEPT !.angle_of_attack =
        IF up THEN @ + TURNING_CIRCLE ELSE @ - TURNING_CIRCLE]

\* hit_check comparing the coordinates without rounding them.
hit_check_exact(p, obj) == p.coordinates = obj.coordinates

\* Projectile.hit_check: the two entities are drawn in the same cell.
hit_check(p, obj) == resolve(p.coordinates) = resolve(obj.coordinates)

\* ----------------------------------------------------------------- Plane
NewPlane(coordinates, angle) ==
    [coordinates |-> coordinates, angle_of_attack |-> angle,
     hull_integrity |-> FULL_HULL, for_deletion |-> FALSE,
     gun |-> NewGun(GunCapacity, GunReloadTime, GunDamage),
     fired_cannon |-> <<>>, animations |-> <<>>]

\* The Cannon that Plane._fire_cannon hands to Gun.fire: two cells ahead of
\* the plane's cell.  owner, born and updates are bookkeeping of the model:
\* who fired it, in which tick, and how often Cannon.update ran on it.
NewCannon(p, owner, t) ==
    LET c == resolve(p.coordinates)
        d == round_direction(p.angle_of_attack)
    IN  [coordinates |-> Cell(c.y + d.y + d.y, c.x + d.x + d.x),
         angle_of_attack |-> p.angle_of_attack,
         damage |-> p.gun.damage, for_deletion |-> FALSE,
         owner |-> owner, born |-> t, updates |-> 0]

\* _fire_cannon queueing the fired cannon twice.
_fire_cannon_twice(p, owner, t, clock) ==
    IF fires(p.gun)
    THEN [p EXCEPT !.gun = fire(p.gun, clock),
                   !.fired_cannon = Append(Append(@, NewCannon(p, owner, t)),
                                           NewCannon(p, owner, t))]
    ELSE p

\* Plane._fire_cannon and the append of Player.parse_key.
_fire_cannon(p, owner, t, clock) ==
    IF fires(p.gun)
    THEN [p EXCEPT !.gun = fire(p.gun, clock),
                   !.fired_cannon = Append(@, NewCannon(p, owner, t))]
    ELSE p

\* The sprites of the plane's queue that are drawn in the plane's cell.
anims_at_coords(p) ==
    {k \in 1..Len(p.animations) :
        resolve(p.animations[k].coordinates) = resolve(p.coordinates)}

smokes(p) == p.hull_integrity < SMOKE_HULL /\ anims_at_coords(p) = {}

DeathOffsets == <<-2, -1, 0, 1, 2>>
HitOffsets == <<-1, 0, 1>>

Explosions(coordinates, offsets) ==
    [k \in 1..Len(offsets) |-> NewAnim("PlaneExplosion", coordinates, offsets[k])]

\* Plane.draw destroying the plane only below 0.
Plane_draw_below(p) ==
    LET p1 == IF smokes(p)
              THEN [p EXCEPT !.animations =
                       Append(@, NewAnim("PlaneSmoke", p.coordinates, 0))]
              ELSE p
        p2 == _move(p1, PLANE_SPEED2, TRUE)
    IN  IF p2.hull_integrity >= 0 THEN p2
        ELSE [p2 EXCEPT !.animations =
                            @ \o Explosions(p2.coordinates, DeathOffsets),
                        !.for_deletion = TRUE]

\* Plane.draw: smoke before the move, the move, then the render or the
\* destruction.
Plane_draw(p) ==
    LET p1 == IF smokes(p)
              THEN [p EXCEPT !.animations =
                       Append(@, NewAnim("PlaneSmoke", p.coordinates, 0))]
              ELSE p
        p2 == _move(p1, PLANE_SPEED2, TRUE)
    IN  IF p2.hull_integrity > 0 THEN p2
        ELSE [p2 EXCEPT !.animations =
                            @ \o Explosions(p2.coordinates, DeathOffsets),
                        !.for_deletion = TRUE]

\* Player.parse_key for one KeyPress addressed to the player.
parse_key(p, key, owner, t, clock) ==
    IF key \in {"up", "down"} THEN _change_pitch(p, key = "up")
    ELSE IF key = "shoot" THEN _fire_cannon(p, owner, t, clock)
    ELSE p

\* ----------------------------------------------------------------- Cannon
\* check_hit_one leaving the cannon that hit in flight.
check_hit_one_unmarked(st, i) ==
    IF hit_check(st.planes[i], st.cannon)
    THEN [planes |-> [st.planes EXCEPT
                        ![i].hull_integrity = @ - st.cannon.damage,
                        ![i].animations =
                            @ \o Explosions(st.cannon.coordinates, HitOffsets)],
          cannon |-> st.cannon,
          hit |-> TRUE]
    ELSE st

\* One visit of the loop of Cannon._check_hits: plane i against cannon c.
\* st holds the planes, the cannon and whether any plane was hit.
check_hit_one(st, i) ==
    IF hit_check(st.planes[i], st.cannon)
    THEN [planes |-> [st.planes EXCEPT
                        ![i].hull_integrity = @ - st.cannon.damage,
                        ![i].animations =
                            @ \o Explosions(st.cannon.coordinates, HitOffsets)],
          cannon |-> [st.cannon EXCEPT !.for_deletion = TRUE],
          hit |-> TRUE]
    ELSE st

\* Cannon._check_hits over the planes of player 1, then of player 2.
_check_hits(c, ps) ==
    check_hit_one(
        check_hit_one([planes |-> ps, cannon |-> c, hit |-> FALSE], 1), 2)

\* Cannon.update moving the cannon before the only check.
Cannon_update_moved(c, ps) ==
    _check_hits(_move([c EXCEPT !.updates = @ + 1], CANNON_SPEED2, FALSE), ps)

\* Cannon.update: the check before the move; with no hit the move and the
\* check after it.
Cannon_update(c, ps) ==
    LET c0 == [c EXCEPT !.updates = @ + 1]
        r1 == _check_hits(c0, ps)
    IN  IF r1.hit THEN r1
        ELSE _check_hits(_move(c0, CANNON_SPEED2, FALSE), ps)

\* The reap of a list: the entries not marked for deletion, in order.
Reap(list) == SelectSeq(list, LAMBDA e : ~e.for_deletion)

\* ------------------------------------------------------------------- Game
\* One visit of the loop of Game.reset_plane, player i, for the plane of
\* player idx.  The forced reload_chamber is the last statement of the
\* first branch: when it raises, the fields before it are already set and
\* nothing after it runs.
reset_visit(st, i, idx, clock) ==
    IF st.raised THEN st
    ELSE IF i = idx
    THEN LET p  == st.planes[i]
             p1 == [p EXCEPT !.hull_integrity = FULL_HULL,
                             !.gun.rounds_in_chamber = p.gun.capacity,
                             !.coordinates = start_coords[i],
                             !.angle_of_attack = start_angles[i],
                             !.for_deletion = FALSE]
         IN  IF reload_raises(p1.gun)
             THEN [st EXCEPT !.planes[i] = p1, !.raised = TRUE]
             ELSE [st EXCEPT !.planes[i] =
                      [p1 EXCEPT !.gun = reload_chamber(p1.gun, TRUE, clock)]]
    ELSE [st EXCEPT !.kills[i] = @ + 1]

\* Game.reset_plane(plane of player idx)
reset_plane(ps, ks, idx, clock) ==
    reset_visit(
        reset_visit([planes |-> ps, kills |-> ks, raised |-> FALSE],
                    1, idx, clock),
        2, idx, clock)

\* drains leaving the last fired cannon in the plane's queue.
drains_late(p) == Len(p.fired_cannon) > 1

\* "if plane.fired_cannon: self.cannons.append(plane.fired_cannon.pop(0))"
drains(p) == p.fired_cannon # <<>>

\* "if plane.gun.is_reloading: plane.gun.reload_chamber()"
gun_tick(g, clock) == IF g.is_reloading THEN reload_chamber(g, FALSE, clock) ELSE g

\* ----------------------------------------------------------------- input
Keys == {"KEY_DOWN", "KEY_UP", "SPACE_KEY", "w", "s", "d", "no_key"}
P_ONE_YOKE == [KEY_DOWN |-> "up", KEY_UP |-> "down", SPACE_KEY |-> "shoot"]
P_TWO_YOKE == [w |-> "up", s |-> "down", d |-> "shoot"]
yokes == <<P_ONE_YOKE, P_TWO_YOKE>>

\* read_key looking every key up in the yoke of player 1.
LocalGame_read_key_shared(key) ==
    [i \in Players |->
        IF key \in DOMAIN P_ONE_YOKE THEN P_ONE_YOKE[key] ELSE "none"]

\* LocalGame.read_key: one KeyPress for each player, None ("none") when the
\* key is not in the player's yoke.
LocalGame_read_key(key) ==
    [i \in Players |->
        IF key \in DOMAIN yokes[i] THEN yokes[i][key] ELSE "none"]

\* ------------------------------------------------------------------ relay
\* The two game clients, by the address of their connection.
\* The connections the server may get: the two clients of a game, and a
\* third peer.
Clients == {1, 2, 3}
Pair == {1, 2}
\* NetworkGame.conn_id of each client (a uuid4 string in the program).
conn_id == <<"a1", "b2", "c3">>

\* JSON values on the wire: null, a string, {"callsign": string}, and the
\* list that DATA_BUFFER keeps under 'sent_to'.
Null == [t |-> "null", v |-> <<>>]
Str(str) == [t |-> "str", v |-> <<str>>]
Callsign(str) == [t |-> "callsign", v |-> <<str>>]
List(seq) == [t |-> "list", v |-> seq]

\* Bytes that json.loads rejects with JSONDecodeError.
Garbage == [t |-> "garbage", v |-> <<>>]

\* DATA_BUFFER = {'sent_to': []}
EmptyBuffer == [k \in {"sent_to"} |-> List(<<>>)]

\* dict.update
dict_update(d, e) ==
    [k \in DOMAIN d \cup DOMAIN e |-> IF k \in DOMAIN e THEN e[k] ELSE d[k]]

\* {k: v for k, v in DATA_BUFFER.items() if k != 'sent_to'}
only_data(buf) == [k \in DOMAIN buf \ {"sent_to"} |-> buf[k]]

\* dogfight-cli's "players = [Player(info_box=llbox), Player(info_box=lrbox)]"
NewPlayers == [i \in 1..2 |-> [plane |-> "none", ready |-> FALSE]]

\* NetworkGame._provision_players, the loop over self.players: each player
\* is bound to the next plane of _provision_planes and made ready.
bind_players(ps) ==
    [i \in DOMAIN ps |->
        [plane |-> IF i = 1 THEN "BF109" ELSE "P51", ready |-> TRUE]]

\* Game.start_game: "all(p.ready for p in self.players)"
conditions_met(ps) == \A i \in DOMAIN ps : ps[i].ready

\* The readiness masks of an event of the server's selector.
Masks == {{"READ"}, {"WRITE"}, {"READ", "WRITE"}}

\* json.loads of the bytes one recv returns: one JSON object decodes;
\* several objects at once, or bytes that are no JSON, raise
\* JSONDecodeError.
decodes(bytes) == Len(bytes) = 1 /\ bytes[1] # Garbage

\* service_read emptying the buffer on bytes that do not decode.
service_read_reset(buf, bytes) ==
    IF decodes(bytes) THEN dict_update(buf, bytes[1]) ELSE EmptyBuffer

\* service_read merging the object a second time under a key of its own.
service_read_echo(buf, bytes) ==
    IF decodes(bytes)
    THEN dict_update(dict_update(buf, bytes[1]),
                     [k \in {"echo"} |->
                         bytes[1][CHOOSE id \in DOMAIN bytes[1] : TRUE]])
    ELSE buf

\* service_connection, EVENT_READ: recv takes all the bytes that wait.  One
\* JSON object decodes and is merged into the buffer (data.outb stays
\* empty, so its test always passes); what does not decode is dropped.
service_read(buf, bytes) ==
    IF decodes(bytes) THEN dict_update(buf, bytes[1]) ELSE buf

\* sends_to not looking at 'sent_to'.
sends_to_again(buf, addr) == Cardinality(DOMAIN buf) = 3

\* sends_to sending whenever the buffer holds three keys or more.
sends_to_any(buf, addr) ==
    /\ Cardinality(DOMAIN buf) >= 3
    /\ \A k \in 1..Len(buf["sent_to"].v) : buf["sent_to"].v[k] # addr

\* service_connection, EVENT_WRITE: the connection at addr is sent the pair
\* when the buffer holds three keys and addr is not in 'sent_to'.
sends_to(buf, addr) ==
    /\ Cardinality(DOMAIN buf) = 3
    /\ \A k \in 1..Len(buf["sent_to"].v) : buf["sent_to"].v[k] # addr

\* service_write noting no address in 'sent_to'.
service_write_unnoted(buf, addr) == buf

\* service_connection, EVENT_WRITE: the buffer after the branch.
service_write(buf, addr) ==
    IF Cardinality(DOMAIN buf) = 3
    THEN LET noted == IF sends_to(buf, addr)
                      THEN [buf EXCEPT !["sent_to"] = List(Append(@.v, addr))]
                      ELSE buf
         IN  IF Len(noted["sent_to"].v) = 2 THEN EmptyBuffer ELSE noted
    ELSE buf

\* The keys a network client may send in a tick: None, or an action of
\* P_ONE_YOKE.
NetKeys == {Null, Str("up"), Str("shoot")}

\* The keys the model presses in tick t: a shot or nothing in the early
\* ticks, nothing during the cruise, any key afterwards.
EarlyKeys == {"no_key", "SPACE_KEY", "d"}
MaxTick == EarlyTicks + CruiseTicks + FreeTicks
KeysAt(t) ==
    IF t <= EarlyTicks THEN EarlyKeys
    ELSE IF t <= EarlyTicks + CruiseTicks THEN {"no_key"}
    ELSE Keys

\* ------------------------------------------------------------------ state
VARIABLES
    planes,      \* player i's plane (Player.plane), i in 1..2
    kills,       \* Player.kills
    cannons,     \* Game.cannons
    animations,  \* Game.animations
    now,         \* time.monotonic(), in frame periods
    tick,        \* number of the running tick (calls of next_frame so far)
    pc,          \* where the main loop stands inside the tick
    cur,         \* the player the plane loop of next_frame is visiting
    keys,        \* the key_presses handed to next_frame
    ci,          \* the cannon the cannon loop of next_frame is visiting
    err,         \* the exception that ended the process, or "none"
    \* a Gun on its own, driven call by call (GunSpec)
    gun,         \* the Gun object
    gclock,      \* time.monotonic() at the running call
    gret,        \* what the last call of fire returned
    gcalls,      \* calls of fire since the chamber was last full
    \* the relay server and its clients (RelaySpec)
    DATA_BUFFER, \* server.py's DATA_BUFFER
    registered,  \* the connections registered with the server's selector
    c2s,         \* bytes on the way from each client to the server
    s2c,         \* bytes on the way from the server to each client
    cpc,         \* where each client stands in NetworkGame
    ctick,       \* ticks each client has played
    delivered,   \* the merged messages the server sent to each connection
    srv,         \* the server process: "up", or the exception that ended it
    gone,        \* the connections the server has unregistered and closed
    closed,      \* the clients that have closed their socket
    sent,        \* the payloads each client has handed to its socket
    dropt,       \* the connections of which the server has dropped bytes
    net_players, \* each client's Game.players: ready and plane of both
    \* two clients provisioning their players (PairingSpec)
    uuid4,       \* each client's NetworkGame.conn_id
    items,       \* the entries of the relay's buffer, in insertion order
    players,     \* each client's Game.players once provisioned
    \* two clients playing the same merged inputs (TwinSpec)
    twin,        \* each client's game: planes, kills, cannons, animations
    tclock,      \* each client's time.monotonic()
    ttick,       \* ticks both clients have played
    \* one Client, its socket and its selector (ClientSpec)
    csock,       \* the client's socket: "open" or "closed"
    cregistered, \* whether the socket is registered with Client.sel
    csel,        \* Client.sel: "open" or "closed"
    writable,    \* whether the socket can take bytes (connected, room left)
    wire_in,     \* bytes the server sent that the client has not read
    peer_eof,    \* whether the server has closed the connection
    wire_out,    \* bytes the client has transmitted
    cret,        \* the last call on the Client and what it returned
    gpc,         \* where the client's main loop stands
    \* one Projectile on its own (EntitySpec)
    ent,         \* the Projectile
    eop,         \* the last method called on it
    ecalls,      \* methods called on it so far
    elist,       \* Game.cannons, which holds the entity when it is a cannon
    \* the game's list of animations on its own (AnimSpec)
    anims,       \* Game.animations
    aborn,       \* for each animation of the list, the tick that brought it
    atick,       \* ticks played so far
    \* one damaged Plane and the animations it spawns (SmokeSpec)
    splane,       \* the Plane
    sanims,       \* Game.animations
    stick,        \* ticks played so far
    spc,          \* where next_frame stands inside the tick
    \* the start menu, key press by key press (MenuSpec)
    fields,       \* Menu.fields, field i of StartMenu at index i
    active_field_idx, \* Menu.active_field_idx
    mpc           \* open_menu: off, getch, closed, exit or hang

gamevars == <<planes, kills, cannons, animations, now, tick, pc, cur, keys, ci, err>>
gunvars == <<gun, gclock, gret, gcalls>>
relayvars == <<DATA_BUFFER, registered, c2s, s2c, cpc, ctick, delivered,
               srv, gone, closed, sent, dropt, net_players>>
pairvars == <<uuid4, items, players>>
twinvars == <<twin, tclock, ttick>>
clivars == <<csock, cregistered, csel, writable, wire_in, peer_eof, wire_out,
             cret, gpc>>
entvars == <<ent, eop, ecalls, elist>>
animvars == <<anims, aborn, atick>>
smokevars == <<splane, sanims, stick, spc>>
menuvars == <<fields, active_field_idx, mpc>>
vars == <<gamevars, gunvars, relayvars, pairvars, twinvars, clivars, entvars,
         animvars,
         smokevars,
         menuvars>>

\* The Gun of GunSpec while another specification runs.
GunIdle ==
    /\ gun = NewGun(GunCapacity, GunReloadTime, GunDamage)
    /\ gclock = 0
    /\ gret = [call |-> "none", cannon |-> FALSE, damage |-> 0, raised |-> FALSE]
    /\ gcalls = 0

\* The relay before any client has connected: server.py's module level and
\* NetworkGame.__post_init__.
RelayInit ==
    /\ DATA_BUFFER = EmptyBuffer
    /\ registered = {}
    /\ c2s = [c \in Clients |-> <<>>]
    /\ s2c = [c \in Clients |-> <<>>]
    /\ cpc = [c \in Clients |-> IF c \in Pair THEN "provision" ELSE "off"]
    /\ ctick = [c \in Clients |-> 0]
    /\ delivered = [c \in Clients |-> <<>>]
    /\ srv = "up"
    /\ gone = {}
    /\ closed = {}
    /\ sent = [c \in Clients |-> <<>>]
    /\ dropt = {}
    /\ net_players = [c \in Clients |-> NewPlayers]

\* Game._provision_planes and LocalGame._provision_players
GameInit ==
    /\ planes = [i \in Players |-> NewPlane(start_coords[i], start_angles[i])]
    /\ kills = [i \in Players |-> 0]
    /\ cannons = <<>>
    /\ animations = <<>>
    /\ now = 0
    /\ tick = 0
    /\ pc = "read_key"
    /\ cur = 1
    /\ keys = [i \in Players |-> "none"]
    /\ ci = 1
    /\ err = "none"

\* No client of PairingSpec has started.
PairIdle ==
    /\ uuid4 = <<>>
    /\ items = <<>>
    /\ players = <<>>

\* No client of TwinSpec has started.
TwinIdle ==
    /\ twin = <<>>
    /\ tclock = <<>>
    /\ ttick = 0

\* No Client of ClientSpec has been made.
ClientIdle ==
    /\ csock = "none"
    /\ cregistered = FALSE
    /\ csel = "none"
    /\ writable = FALSE
    /\ wire_in = <<>>
    /\ peer_eof = FALSE
    /\ wire_out = <<>>
    /\ cret = <<>>
    /\ gpc = "off"

\* No Projectile of EntitySpec has been made.
EntityIdle ==
    /\ ent = <<>>
    /\ eop = "none"
    /\ ecalls = 0
    /\ elist = <<>>

AnimIdle ==
    /\ anims = <<>>
    /\ aborn = <<>>
    /\ atick = 0

SmokeIdle ==
    /\ splane = <<>>
    /\ sanims = <<>>
    /\ stick = 0
    /\ spc = "off"

MenuIdle ==
    /\ fields = <<>>
    /\ active_field_idx = 0
    /\ mpc = "off"

Idle == PairIdle /\ TwinIdle /\ ClientIdle /\ EntityIdle /\ AnimIdle /\ SmokeIdle /\ MenuIdle

Init == GameInit /\ GunIdle /\ RelayInit /\ Idle

\* main loop: key_presses = game.read_key(), then next_frame starts.
ReadKey ==
    /\ pc = "read_key"
    /\ tick < MaxTick
    /\ \E key \in KeysAt(tick + 1) : keys' = LocalGame_read_key(key)
    /\ tick' = tick + 1
    /\ now' = now + 1
    /\ pc' = "reset"
    /\ cur' = 1
    /\ UNCHANGED <<ci, planes, kills, cannons, animations, err>>
    /\ UNCHANGED <<gunvars, relayvars, pairvars, twinvars, clivars, entvars, animvars, smokevars, menuvars>>

\* next_frame, plane loop: "if plane.for_deletion: self.reset_plane(plane)".
\* A TypeError out of reset_plane is caught nowhere and ends the process.
ResetPlane ==
    /\ pc = "reset"
    /\ planes[cur].for_deletion
    /\ LET r == reset_plane(planes, kills, cur, now)
       IN  /\ planes' = r.planes
           /\ kills' = r.kills
           /\ pc' = IF r.raised THEN "crashed" ELSE "parse_key"
           /\ err' = IF r.raised THEN "TypeError" ELSE err
    /\ UNCHANGED <<ci, cannons, animations, now, tick, cur, keys>>
    /\ UNCHANGED <<gunvars, relayvars, pairvars, twinvars, clivars, entvars, animvars, smokevars, menuvars>>

SkipReset ==
    /\ pc = "reset"
    /\ ~planes[cur].for_deletion
    /\ pc' = "parse_key"
    /\ UNCHANGED <<ci, planes, kills, cannons, animations, now, tick, cur, keys, err>>
    /\ UNCHANGED <<gunvars, relayvars, pairvars, twinvars, clivars, entvars, animvars, smokevars, menuvars>>

\* next_frame, plane loop: player.parse_key(key_presses), then one fired
\* cannon is moved from the plane's queue to the game's list.
ParseKey ==
    /\ pc = "parse_key"
    /\ LET p == parse_key(planes[cur], keys[cur], cur, tick, now)
       IN  IF drains(p)
           THEN /\ cannons' = Append(cannons, Head(p.fired_cannon))
                /\ planes' = [planes EXCEPT ![cur] =
                                 [p EXCEPT !.fired_cannon = Tail(@)]]
           ELSE /\ cannons' = cannons
                /\ planes' = [planes EXCEPT ![cur] = p]
    /\ pc' = "draw"
    /\ UNCHANGED <<ci, kills, animations, now, tick, cur, keys, err>>
    /\ UNCHANGED <<gunvars, relayvars, pairvars, twinvars, clivars, entvars, animvars, smokevars, menuvars>>

\* next_frame, plane loop: plane.draw(self.screen)
Draw ==
    /\ pc = "draw"
    /\ planes' = [planes EXCEPT ![cur] = Plane_draw(@)]
    /\ pc' = "post"
    /\ UNCHANGED <<ci, kills, cannons, animations, now, tick, cur, keys, err>>
    /\ UNCHANGED <<gunvars, relayvars, pairvars, twinvars, clivars, entvars, animvars, smokevars, menuvars>>

\* next_frame, plane loop: the gun's reload, then the plane's animations
\* are handed to the game; the loop goes to the next player or ends.
Post ==
    /\ pc = "post"
    /\ planes' = [planes EXCEPT ![cur].gun = gun_tick(@, now),
                                ![cur].animations = <<>>]
    /\ animations' = animations \o planes[cur].animations
    /\ IF cur = 1 THEN cur' = 2 /\ pc' = "reset"
                  ELSE cur' = 1 /\ pc' = "cannons"
    /\ UNCHANGED <<ci, kills, cannons, now, tick, keys, err>>
    /\ UNCHANGED <<gunvars, relayvars, pairvars, twinvars, clivars, entvars, animvars, smokevars, menuvars>>

\* next_frame: "self.cannons = [c for c in self.cannons if not c.for_deletion]"
ReapCannons ==
    /\ pc = "cannons"
    /\ cannons' = Reap(cannons)
    /\ ci' = 1
    /\ pc' = "update"
    /\ UNCHANGED <<planes, kills, animations, now, tick, cur, keys, err>>
    /\ UNCHANGED <<gunvars, relayvars, pairvars, twinvars, clivars, entvars, animvars, smokevars, menuvars>>

\* next_frame, cannon loop: cannon.update(self.screen, planes) for cannon ci.
UpdateCannon ==
    /\ pc = "update"
    /\ ci <= Len(cannons)
    /\ LET r == Cannon_update(cannons[ci], planes)
       IN  /\ cannons' = [cannons EXCEPT ![ci] = r.cannon]
           /\ planes' = r.planes
    /\ ci' = ci + 1
    /\ UNCHANGED <<kills, animations, now, tick, pc, cur, keys, err>>
    /\ UNCHANGED <<gunvars, relayvars, pairvars, twinvars, clivars, entvars, animvars, smokevars, menuvars>>

\* next_frame, once the cannon loop is over: the reap of the animations,
\* then every animation left is advanced by one frame.
PlayAnimations ==
    /\ pc = "update"
    /\ ci > Len(cannons)
    /\ animations' = [k \in 1..Len(Reap(animations)) |->
                         anim_next_frame(Reap(animations)[k])]
    /\ pc' = "read_key"
    /\ UNCHANGED <<planes, kills, cannons, now, tick, cur, keys, ci, err>>
    /\ UNCHANGED <<gunvars, relayvars, pairvars, twinvars, clivars, entvars, animvars, smokevars, menuvars>>

Next ==
    \/ ReadKey
    \/ ResetPlane
    \/ SkipReset
    \/ ParseKey
    \/ Draw
    \/ Post
    \/ ReapCannons
    \/ UpdateCannon
    \/ PlayAnimations

Spec == Init /\ [][Next]_vars

\* ------------------------------------------------------------- FlightSpec
\* The local game with player 1 flying a loop: a half turn, a shot, the
\* turn back, and the flight through the left bound of the arena.
MaxFlightTick == 66
TurnTicks == 8
ShotTick == TurnTicks + 1
BackTicks == 9
LevelTick == ShotTick + BackTicks + 8

\* The keys pressed in tick t of the flight.
FlightKeys(t) ==
    IF t <= TurnTicks THEN {"KEY_DOWN"}
    ELSE IF t = ShotTick THEN {"SPACE_KEY", "no_key"}
    ELSE IF t <= ShotTick + BackTicks THEN {"KEY_UP"}
    ELSE IF t = LevelTick THEN {"KEY_DOWN", "no_key"}
    ELSE {"no_key"}

\* main loop: key_presses = game.read_key(), then next_frame starts.
FlightReadKey ==
    /\ pc = "read_key"
    /\ tick < MaxFlightTick
    /\ \E key \in FlightKeys(tick + 1) : keys' = LocalGame_read_key(key)
    /\ tick' = tick + 1
    /\ now' = now + 1
    /\ pc' = "reset"
    /\ cur' = 1
    /\ UNCHANGED <<ci, planes, kills, cannons, animations, err>>
    /\ UNCHANGED <<gunvars, relayvars, pairvars, twinvars, clivars, entvars, animvars, smokevars, menuvars>>

FlightNext ==
    \/ FlightReadKey
    \/ ResetPlane
    \/ SkipReset
    \/ ParseKey
    \/ Draw
    \/ Post
    \/ ReapCannons
    \/ UpdateCannon
    \/ PlayAnimations

FlightSpec == Init /\ [][FlightNext]_vars

\* ---------------------------------------------------------------- GunSpec
\* A Gun driven call by call, for every configuration up to the bounds.
MaxCapacity == 3
MaxReloadTime == 2
MaxClock == 5

GunInit ==
    /\ \E c \in 1..MaxCapacity, r \in 1..MaxReloadTime :
          gun = NewGun(c, r, GunDamage)
    /\ gclock = 0
    /\ gret = [call |-> "none", cannon |-> FALSE, damage |-> 0, raised |-> FALSE]
    /\ gcalls = 0

\* A call of Gun.fire.
GunFire ==
    /\ gun' = fire(gun, gclock)
    /\ gret' = [call |-> "fire", cannon |-> fires(gun),
                damage |-> IF fires(gun) THEN gun.damage ELSE 0,
                raised |-> FALSE]
    /\ gcalls' = IF fires(gun) THEN gcalls + 1 ELSE gcalls
    /\ UNCHANGED <<gclock, gamevars, relayvars, pairvars, twinvars, clivars, entvars, animvars, smokevars, menuvars>>

\* A call of Gun.reload_chamber(force).
GunReload ==
    /\ \E force \in BOOLEAN :
          IF reload_raises(gun)
          THEN /\ gret' = [call |-> "reload", cannon |-> FALSE, damage |-> 0,
                           raised |-> TRUE]
               /\ UNCHANGED <<gun, gcalls>>
          ELSE /\ gun' = reload_chamber(gun, force, gclock)
               /\ gret' = [call |-> "reload", cannon |-> FALSE, damage |-> 0,
                           raised |-> FALSE]
               /\ gcalls' = IF time_elapsed(gun, gclock) \/ force THEN 0 ELSE gcalls
    /\ UNCHANGED <<gclock, gamevars, relayvars, pairvars, twinvars, clivars, entvars, animvars, smokevars, menuvars>>

\* Time passes between two calls.
GunTime ==
    /\ gclock < MaxClock
    /\ gclock' = gclock + 1
    /\ UNCHANGED <<gun, gret, gcalls, gamevars, relayvars, pairvars, twinvars, clivars, entvars, animvars, smokevars, menuvars>>

GunNext == GunFire \/ GunReload \/ GunTime

GunStart == GameInit /\ GunInit /\ RelayInit /\ Idle

GunSpec == GunStart /\ [][GunNext]_vars

\* -------------------------------------------------------------- RelaySpec
\* Ticks each network client plays once the game has started.
MaxRounds == 2
\* Ticks the third peer plays.
MaxThirdRounds == 0
\* Messages of one client that may wait unread at the server.
MaxPending == 2
\* Clients that end their process.
MaxDisconnects == 1

\* What the relay variables other than those named keep.
ClientOnly == UNCHANGED <<DATA_BUFFER, registered, delivered, srv, gone, dropt>>

\* The third peer starts: NetworkGame.__post_init__ creates its Client,
\* which connects.
Launch(c) ==
    /\ cpc[c] = "off"
    /\ cpc' = [cpc EXCEPT ![c] = "provision"]
    /\ ClientOnly
    /\ UNCHANGED <<c2s, s2c, ctick, closed, sent, net_players>>
    /\ UNCHANGED <<gamevars, gunvars, pairvars, twinvars, clivars, entvars, animvars, smokevars, menuvars>>

\* accept_wrapper: the connection is registered for reading and writing.
Accept(c) ==
    /\ srv = "up"
    /\ cpc[c] # "off"
    /\ c \notin registered \cup gone
    /\ registered' = registered \cup {c}
    /\ UNCHANGED <<DATA_BUFFER, c2s, s2c, cpc, ctick, delivered, srv, gone,
                   closed, sent, dropt, net_players>>
    /\ UNCHANGED <<gamevars, gunvars, pairvars, twinvars, clivars, entvars, animvars, smokevars, menuvars>>

\* service_connection(key, mask) for the connection of client c.  An event
\* carries EVENT_READ only when bytes of c wait at the server or c has
\* closed its socket; recv then returns the bytes that wait, or b'' once
\* there are none.  After the empty read the socket is closed, and the
\* sock.send of the write branch raises OSError, which ends the event loop.
Service(c) ==
    /\ srv = "up"
    /\ c \in registered
    /\ \E mask \in Masks :
          /\ "READ" \in mask => (c2s[c] # <<>> \/ c \in closed)
          /\ LET reads == "READ" \in mask
                 eof == reads /\ c2s[c] = <<>>
                 buf == IF reads /\ ~eof
                        THEN service_read(DATA_BUFFER, c2s[c])
                        ELSE DATA_BUFFER
                 sends == "WRITE" \in mask /\ sends_to(buf, c)
                 raises == eof /\ sends
             IN  /\ registered' = IF eof THEN registered \ {c} ELSE registered
                 /\ gone' = IF eof THEN gone \cup {c} ELSE gone
                 /\ srv' = IF raises THEN "OSError" ELSE srv
                 /\ DATA_BUFFER' = IF "WRITE" \in mask /\ ~raises
                                   THEN service_write(buf, c) ELSE buf
                 /\ c2s' = IF reads THEN [c2s EXCEPT ![c] = <<>>] ELSE c2s
                 /\ dropt' = IF reads /\ ~eof /\ ~decodes(c2s[c])
                             THEN dropt \cup {c} ELSE dropt
                 /\ s2c' = IF sends /\ ~raises /\ c \notin closed
                           THEN [s2c EXCEPT ![c] = Append(@, only_data(buf))]
                           ELSE s2c
                 /\ delivered' = IF sends /\ ~raises
                                 THEN [delivered EXCEPT
                                          ![c] = Append(@, only_data(buf))]
                                 ELSE delivered
    /\ UNCHANGED <<cpc, ctick, closed, sent, net_players>>
    /\ UNCHANGED <<gamevars, gunvars, pairvars, twinvars, clivars, entvars, animvars, smokevars, menuvars>>

\* Client.send(msg) of a client that goes on to state next: the message
\* goes out when the selector reports the socket writable within the
\* timeout, and is dropped without a word otherwise.
ClientSend(c, msg, next) ==
    /\ \/ /\ c2s' = [c2s EXCEPT ![c] = Append(@, [k \in {conn_id[c]} |-> msg])]
          /\ sent' = [sent EXCEPT ![c] = Append(@, msg)]
       \/ UNCHANGED <<c2s, sent>>
    /\ cpc' = [cpc EXCEPT ![c] = next]

\* NetworkGame._provision_players: the callsign is sent.
Provision(c) ==
    /\ cpc[c] = "provision"
    /\ Len(c2s[c]) < MaxPending
    /\ ClientSend(c, Callsign(conn_id[c]), "await_pair")
    /\ ClientOnly
    /\ UNCHANGED <<s2c, ctick, closed, net_players>>
    /\ UNCHANGED <<gamevars, gunvars, pairvars, twinvars, clivars, entvars, animvars, smokevars, menuvars>>

\* NetworkGame._provision_players inside Game.start_game: a message is
\* received; one of two entries provisions the players (v['callsign'] of an
\* entry that is no callsign raises TypeError), any other is skipped.  Once
\* the players are provisioned start_game waits until all are ready, sets
\* is_started, and the main loop goes on to read_key.
ReceivePair(c) ==
    /\ cpc[c] = "await_pair"
    /\ s2c[c] # <<>>
    /\ LET recv == Head(s2c[c])
           bound == bind_players(net_players[c])
       IN  IF Cardinality(DOMAIN recv) # 2
           THEN UNCHANGED <<cpc, net_players>>
           ELSE IF \A k \in DOMAIN recv : recv[k].t = "callsign"
           THEN /\ net_players' = [net_players EXCEPT ![c] = bound]
                /\ cpc' = [cpc EXCEPT ![c] =
                              IF conditions_met(bound) THEN "read_key"
                              ELSE "start_game"]
           ELSE /\ cpc' = [cpc EXCEPT ![c] = "TypeError"]
                /\ UNCHANGED net_players
    /\ s2c' = [s2c EXCEPT ![c] = Tail(@)]
    /\ ClientOnly
    /\ UNCHANGED <<c2s, ctick, closed, sent>>
    /\ UNCHANGED <<gamevars, gunvars, pairvars, twinvars, clivars, entvars, animvars, smokevars, menuvars>>

\* NetworkGame.read_key: the local key is sent.
SendKey(c) ==
    /\ cpc[c] = "read_key"
    /\ ctick[c] < (IF c \in Pair THEN MaxRounds ELSE MaxThirdRounds)
    /\ \E key \in NetKeys : ClientSend(c, key, "await_keys")
    /\ ClientOnly
    /\ UNCHANGED <<s2c, ctick, closed, net_players>>
    /\ UNCHANGED <<gamevars, gunvars, pairvars, twinvars, clivars, entvars, animvars, smokevars, menuvars>>

\* NetworkGame.read_key: a message is received; one of two entries is the
\* tick's key_presses and the tick is played.
ReceiveKeys(c) ==
    /\ cpc[c] = "await_keys"
    /\ s2c[c] # <<>>
    /\ LET recv == Head(s2c[c])
       IN  IF Cardinality(DOMAIN recv) = 2
           THEN /\ cpc' = [cpc EXCEPT ![c] = "read_key"]
                /\ ctick' = [ctick EXCEPT ![c] = @ + 1]
           ELSE UNCHANGED <<cpc, ctick>>
    /\ s2c' = [s2c EXCEPT ![c] = Tail(@)]
    /\ ClientOnly
    /\ UNCHANGED <<c2s, closed, sent, net_players>>
    /\ UNCHANGED <<gamevars, gunvars, pairvars, twinvars, clivars, entvars, animvars, smokevars, menuvars>>

\* The client's process ends (KeyboardInterrupt, close_game, sys.exit) and
\* its socket is closed.
Disconnect(c) ==
    /\ cpc[c] \in {"provision", "await_pair", "read_key", "await_keys"}
    /\ Cardinality(closed) < MaxDisconnects
    /\ cpc' = [cpc EXCEPT ![c] = "closed"]
    /\ closed' = closed \cup {c}
    /\ s2c' = [s2c EXCEPT ![c] = <<>>]
    /\ net_players' = [net_players EXCEPT ![c] = NewPlayers]
    /\ ClientOnly
    /\ UNCHANGED <<c2s, ctick, sent>>
    /\ UNCHANGED <<gamevars, gunvars, pairvars, twinvars, clivars, entvars, animvars, smokevars, menuvars>>

\* The third peer sends bytes that are no JSON.
SendGarbage(c) ==
    /\ c \notin Pair
    /\ cpc[c] = "provision"
    /\ Len(c2s[c]) < MaxPending
    /\ c2s' = [c2s EXCEPT ![c] = Append(@, Garbage)]
    /\ ClientOnly
    /\ UNCHANGED <<s2c, cpc, ctick, closed, sent, net_players>>
    /\ UNCHANGED <<gamevars, gunvars, pairvars, twinvars, clivars, entvars, animvars, smokevars, menuvars>>

RelayNext ==
    \E c \in Clients :
        \/ Launch(c)
        \/ Accept(c)
        \/ Service(c)
        \/ Provision(c)
        \/ ReceivePair(c)
        \/ SendKey(c)
        \/ ReceiveKeys(c)
        \/ Disconnect(c)
        \/ SendGarbage(c)

RelaySpec == Init /\ [][RelayNext]_vars

\* ------------------------------------------------------------- DecodeSpec
\* The relay and two connections whose peers send any JSON text.
\* Messages the relay reads.
MaxReads == 2

\* What json.loads can return: an object (a function of its keys), or a
\* value that is no object (null, a string, an array).
is_object(m) == ~({"t", "v"} \subseteq DOMAIN m)

\* The JSON texts a peer sends: objects with one key, two keys, no key or
\* the key 'sent_to', an array, a string, null.
JsonOf(c) ==
    {[k \in {conn_id[c]} |-> Null],
     [k \in {conn_id[c], "k2"} |-> Null],
     [k \in {} |-> Null],
     [k \in {"sent_to"} |-> List(<<0>>)],
     [k \in {"sent_to"} |-> Null],
     List(<<>>), Str("up"), Null}

\* service_connection, EVENT_READ, on bytes that decode: "recv_json.keys()"
\* raises AttributeError on a value that is no object, and
\* "list(recv_json.keys())[0]" raises IndexError on an object with no key.
read_error(m) ==
    IF ~is_object(m) THEN "AttributeError"
    ELSE IF DOMAIN m = {} THEN "IndexError"
    ELSE "none"

\* service_connection, EVENT_WRITE: "data.addr not in DATA_BUFFER['sent_to']"
\* raises TypeError when the value under 'sent_to' is no list.
write_error(buf) ==
    IF Cardinality(DOMAIN buf) = 3 /\ buf["sent_to"].t # "list"
    THEN "TypeError" ELSE "none"

\* A peer's message reaches the relay.
PeerSend(c) ==
    /\ srv = "up"
    /\ c \in registered
    /\ c2s[c] = <<>>
    /\ Len(sent[c]) < MaxReads
    /\ \E m \in JsonOf(c) :
          /\ c2s' = [c2s EXCEPT ![c] = <<m>>]
          /\ sent' = [sent EXCEPT ![c] = Append(@, m)]
    /\ UNCHANGED <<DATA_BUFFER, registered, s2c, cpc, ctick, delivered, srv,
                   gone, closed, dropt, net_players>>
    /\ UNCHANGED <<gamevars, gunvars, pairvars, twinvars, clivars, entvars, animvars, smokevars, menuvars>>

\* service_connection(key, mask) for the connection of c, whose peer stays
\* connected: the read of a message that decodes, then the write.  An
\* exception other than JSONDecodeError ends the event loop.
Serve(c) ==
    /\ srv = "up"
    /\ c \in registered
    /\ \E mask \in Masks :
          /\ "READ" \in mask => c2s[c] # <<>>
          /\ LET reads == "READ" \in mask
                 rerr == IF reads THEN read_error(c2s[c][1]) ELSE "none"
                 buf == IF reads /\ rerr = "none"
                        THEN dict_update(DATA_BUFFER, c2s[c][1])
                        ELSE DATA_BUFFER
                 writes == "WRITE" \in mask /\ rerr = "none"
                 werr == IF writes THEN write_error(buf) ELSE "none"
                 sends == writes /\ werr = "none" /\ sends_to(buf, c)
             IN  /\ srv' = IF rerr # "none" THEN rerr
                           ELSE IF werr # "none" THEN werr ELSE srv
                 /\ DATA_BUFFER' = IF writes /\ werr = "none"
                                   THEN service_write(buf, c) ELSE buf
                 /\ c2s' = IF reads THEN [c2s EXCEPT ![c] = <<>>] ELSE c2s
                 /\ s2c' = IF sends
                           THEN [s2c EXCEPT ![c] = Append(@, only_data(buf))]
                           ELSE s2c
                 /\ delivered' = IF sends
                                 THEN [delivered EXCEPT
                                          ![c] = Append(@, only_data(buf))]
                                 ELSE delivered
    /\ UNCHANGED <<registered, cpc, ctick, gone, closed, sent, dropt, net_players>>
    /\ UNCHANGED <<gamevars, gunvars, pairvars, twinvars, clivars, entvars, animvars, smokevars, menuvars>>

DecodeNext == \E c \in Pair : Accept(c) \/ PeerSend(c) \/ Serve(c)

DecodeSpec == Init /\ [][DecodeNext]_vars

\* ------------------------------------------------------------ PairingSpec
\* Two clients with any two identifiers report their callsigns to the relay
\* in either order and provision their players from the pair they receive.
\* Length of an identifier, and the code points it is made of.
MaxIdLen == 2
MaxCodePoint == 2

\* str(uuid.uuid4()): a string, as the sequence of its code points.
Uuids == UNION {[1..n -> 0..MaxCodePoint] : n \in 1..MaxIdLen}

\* Python's < on str: the first differing code point decides, a proper
\* prefix is the smaller.
RECURSIVE str_lt(_, _)
str_lt(x, y) ==
    IF y = <<>> THEN FALSE
    ELSE IF x = <<>> THEN TRUE
    ELSE IF Head(x) # Head(y) THEN Head(x) < Head(y)
    ELSE str_lt(Tail(x), Tail(y))

\* list.sort(key=lambda i: i[0]): stable, ascending by the first member.
RECURSIVE sort_by_uuid(_)
sort_by_uuid(list) ==
    IF list = <<>> THEN <<>>
    ELSE LET rest == sort_by_uuid(Tail(list))
             before == SelectSeq(rest, LAMBDA i : str_lt(i[1], Head(list)[1]))
             after == SelectSeq(rest, LAMBDA i : ~str_lt(i[1], Head(list)[1]))
         IN  before \o <<Head(list)>> \o after

\* Game._provision_planes: the BF109 with the first colour, start
\* coordinates and angle, then the P51 with the second.
provision_planes ==
    <<[type |-> "BF109", color_pair |-> 1,
       coordinates |-> START_COORDS_ONE, angle_of_attack |-> START_ANGLE_ONE],
      [type |-> "P51", color_pair |-> 2,
       coordinates |-> START_COORDS_TWO, angle_of_attack |-> START_ANGLE_TWO]>>

\* _provision_players handing out the entries in the order of the message.
provision_players_unsorted(recv) ==
    [i \in 1..2 |->
        [player_id |-> recv[i][1],
         callsign |-> recv[i][2],
         plane |-> provision_planes[i],
         ready |-> TRUE]]

\* NetworkGame._provision_players, on a message of two entries: the
\* entries sorted by identifier, handed to the players in turn together
\* with the planes.
provision_players(recv) ==
    LET uuids_and_callsigns == sort_by_uuid(recv)
    IN  [i \in 1..2 |->
            [player_id |-> uuids_and_callsigns[i][1],
             callsign |-> uuids_and_callsigns[i][2],
             plane |-> provision_planes[i],
             ready |-> TRUE]]

\* NetworkGame.__post_init__ of both clients: two identifiers, and
\* dogfight-cli's two players not yet provisioned.
PairInit ==
    /\ uuid4 \in {u \in [Pair -> Uuids] : u[1] # u[2]}
    /\ items = <<>>
    /\ players = [c \in Pair |-> <<>>]

PairingStart ==
    GameInit /\ GunIdle /\ RelayInit /\ PairInit /\ TwinIdle /\ ClientIdle /\ EntityIdle /\ AnimIdle /\ SmokeIdle /\ MenuIdle

\* The relay merges the callsign of client c into its buffer
\* (DATA_BUFFER.update keeps the order of insertion).
Report(c) ==
    /\ \A k \in 1..Len(items) : items[k][1] # uuid4[c]
    /\ items' = Append(items, <<uuid4[c], c>>)
    /\ UNCHANGED <<uuid4, players>>
    /\ UNCHANGED <<gamevars, gunvars, relayvars, twinvars, clivars, entvars, animvars, smokevars, menuvars>>

\* Client c receives the message of two entries and provisions its
\* players.
ProvisionPlayers(c) ==
    /\ Len(items) = 2
    /\ players[c] = <<>>
    /\ players' = [players EXCEPT ![c] = provision_players(items)]
    /\ UNCHANGED <<uuid4, items>>
    /\ UNCHANGED <<gamevars, gunvars, relayvars, twinvars, clivars, entvars, animvars, smokevars, menuvars>>

PairingNext == \E c \in Pair : Report(c) \/ ProvisionPlayers(c)

PairingSpec == PairingStart /\ [][PairingNext]_vars

\* --------------------------------------------------------------- TwinSpec
\* Two clients start from the same provisioned state and play the same
\* merged inputs tick by tick, each on its own clock.
\* Ticks the two clients play.
MaxTwinTicks == 3
\* Frame periods a tick may take on a client.
MaxFrameTime == 2

\* The keys of a merged pair: None, or an action of P_ONE_YOKE.
TwinKeys == {"none", "up", "shoot"}

\* next_frame, plane loop, the visit of player i: the reset of a plane
\* killed in the previous frame, parse_key, the fired cannon, draw, the
\* gun's reload, the plane's animations.
plane_visit(g, i, key_presses, t, clock) ==
    IF g.err # "none" THEN g
    ELSE LET r == IF g.planes[i].for_deletion
                  THEN reset_plane(g.planes, g.kills, i, clock)
                  ELSE [planes |-> g.planes, kills |-> g.kills, raised |-> FALSE]
         IN  IF r.raised
             THEN [g EXCEPT !.planes = r.planes, !.kills = r.kills,
                            !.err = "TypeError"]
             ELSE LET p  == parse_key(r.planes[i], key_presses[i], i, t, clock)
                      p1 == IF drains(p) THEN [p EXCEPT !.fired_cannon = Tail(@)]
                                         ELSE p
                      p2 == Plane_draw(p1)
                  IN  [planes |-> [r.planes EXCEPT ![i] =
                                      [p2 EXCEPT !.gun = gun_tick(@, clock),
                                                 !.animations = <<>>]],
                       kills |-> r.kills,
                       cannons |-> IF drains(p)
                                   THEN Append(g.cannons, Head(p.fired_cannon))
                                   ELSE g.cannons,
                       animations |-> g.animations \o p2.animations,
                       err |-> g.err]

\* next_frame, cannon loop: cannon.update for cannon k and those after it.
RECURSIVE cannon_visits(_, _)
cannon_visits(st, k) ==
    IF k > Len(st.cannons) THEN st
    ELSE LET r == Cannon_update(st.cannons[k], st.planes)
         IN  cannon_visits([cannons |-> [st.cannons EXCEPT ![k] = r.cannon],
                            planes |-> r.planes], k + 1)

\* Game.next_frame(key_presses), tick t, with time.monotonic() at clock.
next_frame(g, key_presses, t, clock) ==
    LET g2 == plane_visit(plane_visit(g, 1, key_presses, t, clock),
                          2, key_presses, t, clock)
    IN  IF g2.err # "none" THEN g2
        ELSE LET st == cannon_visits([cannons |-> Reap(g2.cannons),
                                      planes |-> g2.planes], 1)
                 as == Reap(g2.animations)
             IN  [planes |-> st.planes,
                  kills |-> g2.kills,
                  cannons |-> st.cannons,
                  animations |-> [k \in 1..Len(as) |-> anim_next_frame(as[k])],
                  err |-> "none"]

\* Both clients provisioned: Game._provision_planes and the fields of Game.
TwinInit ==
    /\ twin = [c \in Pair |->
                  [planes |-> [i \in Players |->
                                  NewPlane(start_coords[i], start_angles[i])],
                   kills |-> [i \in Players |-> 0],
                   cannons |-> <<>>,
                   animations |-> <<>>,
                   err |-> "none"]]
    /\ tclock = [c \in Pair |-> 0]
    /\ ttick = 0

TwinStart ==
    GameInit /\ GunIdle /\ RelayInit /\ PairIdle /\ TwinInit /\ ClientIdle /\ EntityIdle /\ AnimIdle /\ SmokeIdle /\ MenuIdle

\* main loop of both clients: read_key returns the same merged pair to
\* both, and each runs next_frame on it when the pair reaches it.
TwinTick ==
    /\ ttick < MaxTwinTicks
    /\ \E key_presses \in [Players -> TwinKeys] :
       \E dt \in [Pair -> 1..MaxFrameTime] :
          /\ tclock' = [c \in Pair |-> tclock[c] + dt[c]]
          /\ twin' = [c \in Pair |->
                         next_frame(twin[c], key_presses, ttick + 1,
                                    tclock[c] + dt[c])]
    /\ ttick' = ttick + 1
    /\ UNCHANGED <<gamevars, gunvars, relayvars, pairvars, clivars, entvars, animvars, smokevars, menuvars>>

TwinNext == TwinTick

TwinSpec == TwinStart /\ [][TwinNext]_vars

\* ------------------------------------------------------------- ClientSpec
\* One Client of a network game: its calls of send and receive in the main
\* loop, the keyboard interrupt and close_game, against a server that
\* sends, stalls and closes as it likes.
\* Messages the server may have on the way to the client.
MaxInbox == 2
\* Messages the client transmits.
MaxOutbox == 2

\* What Client.receive returns: None, b'' or the bytes read.
NoData == [t |-> "None", v |-> <<>>]
EmptyBytes == [t |-> "bytes", v |-> <<>>]
Bytes(seq) == [t |-> "bytes", v |-> seq]

\* self.sel.select(timeout=3): the mask reported for the socket; no event
\* is reported (the empty mask) when the timeout passes first.
select_mask(sock, reg, can_write, inq, eof) ==
    IF sock = "open" /\ reg
    THEN (IF inq # <<>> \/ eof THEN {"READ"} ELSE {})
         \cup (IF can_write THEN {"WRITE"} ELSE {})
    ELSE {}

\* select on a selector that still holds a closed socket: epoll and kqueue
\* have dropped the descriptor and report nothing, select(2) raises OSError.
select_raises(sock, reg) ==
    IF sock = "closed" /\ reg THEN {FALSE, TRUE} ELSE {FALSE}

\* receive treating the timeout as an empty read.
receive_closing(mask, sock, inq) ==
    IF "READ" \in mask /\ inq # <<>>
    THEN [sock |-> sock, wire_in |-> <<>>, recv_data |-> Bytes(inq)]
    ELSE [sock |-> "closed", wire_in |-> inq, recv_data |-> EmptyBytes]

\* Client.receive, given the mask select reported: sock.recv(1024) on a
\* readable socket, the socket closed on an empty read; None otherwise.
receive(mask, sock, inq) ==
    IF "READ" \in mask
    THEN IF inq # <<>>
         THEN [sock |-> sock, wire_in |-> <<>>, recv_data |-> Bytes(inq)]
         ELSE [sock |-> "closed", wire_in |-> inq, recv_data |-> EmptyBytes]
    ELSE [sock |-> sock, wire_in |-> inq, recv_data |-> NoData]

\* Client.send(msg), given the mask: the bytes transmitted afterwards.
send(mask, outq, msg) ==
    IF "WRITE" \in mask THEN Append(outq, msg) ELSE outq

\* Client.close, given the mask: the socket is unregistered and closed
\* when it is readable.
close(mask, sock, reg) ==
    IF "READ" \in mask
    THEN [sock |-> "closed", registered |-> FALSE]
    ELSE [sock |-> sock, registered |-> reg]

\* Client.__init__: the socket made non-blocking, connect_ex started, the
\* socket registered for reading and writing; the main loop runs.
ClientInit ==
    /\ csock = "open"
    /\ cregistered = TRUE
    /\ csel = "open"
    /\ writable = FALSE
    /\ wire_in = <<>>
    /\ peer_eof = FALSE
    /\ wire_out = <<>>
    /\ cret = [call |-> "none", mask |-> {}, recv_data |-> NoData]
    /\ gpc = "running"

ClientStart ==
    GameInit /\ GunIdle /\ RelayInit /\ PairIdle /\ TwinIdle /\ ClientInit /\ EntityIdle /\ AnimIdle /\ SmokeIdle /\ MenuIdle

NotClient == UNCHANGED <<gamevars, gunvars, relayvars, pairvars, twinvars, entvars, animvars, smokevars, menuvars>>

\* The connection is established, or the peer has read and the send
\* buffer has room again.
SocketWritable ==
    /\ ~writable
    /\ writable' = TRUE
    /\ UNCHANGED <<csock, cregistered, csel, wire_in, peer_eof, wire_out, cret, gpc>>
    /\ NotClient

\* The send buffer is full.
SocketFull ==
    /\ writable
    /\ writable' = FALSE
    /\ UNCHANGED <<csock, cregistered, csel, wire_in, peer_eof, wire_out, cret, gpc>>
    /\ NotClient

\* The server sends a message to the client.
ServerPush ==
    /\ ~peer_eof
    /\ Len(wire_in) < MaxInbox
    /\ wire_in' = Append(wire_in, "msg")
    /\ UNCHANGED <<csock, cregistered, csel, writable, peer_eof, wire_out, cret, gpc>>
    /\ NotClient

\* The server closes the connection.
ServerClose ==
    /\ ~peer_eof
    /\ peer_eof' = TRUE
    /\ UNCHANGED <<csock, cregistered, csel, writable, wire_in, wire_out, cret, gpc>>
    /\ NotClient

\* A call of Client.receive that leaves the main loop at position next.
\* An OSError out of select is caught nowhere and ends the process.
CallReceive(next) ==
    \E raised \in select_raises(csock, cregistered) :
        LET mask == select_mask(csock, cregistered, writable, wire_in, peer_eof)
            r == receive(mask, csock, wire_in)
        IN  IF raised
            THEN /\ gpc' = "OSError"
                 /\ UNCHANGED <<csock, wire_in, cret>>
            ELSE /\ csock' = r.sock
                 /\ wire_in' = r.wire_in
                 /\ cret' = [call |-> "receive", mask |-> mask,
                             recv_data |-> r.recv_data]
                 /\ gpc' = next

\* main loop, read_key or _provision_players: self.client.send(...)
CliSend ==
    /\ gpc = "running"
    /\ Len(wire_out) < MaxOutbox
    /\ \E raised \in select_raises(csock, cregistered) :
          LET mask == select_mask(csock, cregistered, writable, wire_in, peer_eof)
          IN  IF raised
              THEN /\ gpc' = "OSError"
                   /\ UNCHANGED <<wire_out, cret>>
              ELSE /\ wire_out' = send(mask, wire_out, "key")
                   /\ cret' = [call |-> "send", mask |-> mask,
                               recv_data |-> NoData]
                   /\ gpc' = gpc
    /\ UNCHANGED <<csock, cregistered, csel, writable, wire_in, peer_eof>>
    /\ NotClient

\* main loop, read_key or _provision_players: self.client.receive()
CliReceive ==
    /\ gpc = "running"
    /\ CallReceive("running")
    /\ UNCHANGED <<cregistered, csel, writable, peer_eof, wire_out>>
    /\ NotClient

\* main: KeyboardInterrupt is raised in the loop and caught.
Interrupt ==
    /\ gpc = "running"
    /\ gpc' = "close_game"
    /\ UNCHANGED <<csock, cregistered, csel, writable, wire_in, peer_eof, wire_out, cret>>
    /\ NotClient

\* NetworkGame.close_game: _ = self.client.receive()
FinalReceive ==
    /\ gpc = "close_game"
    /\ CallReceive("close")
    /\ UNCHANGED <<cregistered, csel, writable, peer_eof, wire_out>>
    /\ NotClient

\* NetworkGame.close_game: self.client.close(), and close_game returns.
CliClose ==
    /\ gpc = "close"
    /\ \E raised \in select_raises(csock, cregistered) :
          LET mask == select_mask(csock, cregistered, writable, wire_in, peer_eof)
              r == close(mask, csock, cregistered)
          IN  IF raised
              THEN /\ gpc' = "OSError"
                   /\ UNCHANGED <<csock, cregistered, csel, cret>>
              ELSE /\ csock' = r.sock
                   /\ cregistered' = r.registered
                   /\ csel' = "closed"
                   /\ cret' = [call |-> "close", mask |-> mask,
                               recv_data |-> NoData]
                   /\ gpc' = "returned"
    /\ UNCHANGED <<writable, wire_in, peer_eof, wire_out>>
    /\ NotClient

\* main: sys.exit(...) with the final score.
Exit ==
    /\ gpc = "returned"
    /\ gpc' = "exit"
    /\ UNCHANGED <<csock, cregistered, csel, writable, wire_in, peer_eof, wire_out, cret>>
    /\ NotClient

ClientNext ==
    \/ SocketWritable
    \/ SocketFull
    \/ ServerPush
    \/ ServerClose
    \/ CliSend
    \/ CliReceive
    \/ Interrupt
    \/ FinalReceive
    \/ CliClose
    \/ Exit

ClientSpec == ClientStart /\ [][ClientNext]_vars

\* ------------------------------------------------------------- EntitySpec
\* One Projectile on its own, a plane (infinite) or a cannon, anywhere about
\* the arena bounds, moved and pitched call by call.
\* Methods called on the entity.
MaxEntityCalls == 3
\* Turns of pi / 8 the angle of a plane is away from 0.
MaxTurn == 10

\* The double pi / 8 is 7074237752028440 * 2^-54: its residue modulo 64,
\* which decides how a sum of such doubles is rounded.
TURN_LOW == 24

\* The spacing of the doubles about k * pi / 8, in units of 2^-54.
granule(k) ==
    LET n == IF k < 0 THEN -k ELSE k
    IN  IF n <= 1 THEN 1
        ELSE IF n = 2 THEN 2
        ELSE IF n <= 5 THEN 4
        ELSE IF n <= 10 THEN 8
        ELSE IF n <= 20 THEN 16
        ELSE 32

\* An angle is the double k * turning_circle + err * 2^-54.  The sum of
\* such a double and turning_circle, or their difference, is k turns and
\* off away before rounding; round_double gives err after the rounding of
\* IEEE 754 (to the nearest double, a tie to the even one).
round_double(k, off) ==
    LET g == granule(k)
        x == (k * TURN_LOW + off) % (2 * g)
        r == x % g
    IN  IF r = 0 THEN off
        ELSE IF 2 * r < g THEN off - r
        ELSE IF 2 * r > g THEN off + g - r
        ELSE IF x < g THEN off - r ELSE off + g - r

\* Projectile._change_pitch on the doubles: angle_of_attack counts the
\* turns, angle_err the rounding gathered so far.
_change_pitch_double(e, up) ==
    LET k == _change_pitch(e, up).angle_of_attack
    IN  [e EXCEPT !.angle_of_attack = k,
                  !.angle_err = round_double(k, e.angle_err)]

\* The speeds of the entities: 0.5 (a plane), 1 (a cannon) and 2, doubled.
EntitySpeeds == {1, 2, 4}

\* Where the entity starts: the origin, the cells at and next to the arena
\* bounds and the middle, on the cell or half a cell further.
EntityCoords ==
    {Vec(y * COORD_UNITS + h, x * COORD_UNITS + h) :
        y \in {0, ULY, ULY + 1, START_COORDS_Y, LRY - 1, LRY},
        x \in {0, ULX, ULX + 1, ULX + (ARENA_WIDTH \div 2), LRX - 1, LRX},
        h \in {0, COORD_UNITS \div 2}}

\* A Plane (infinite) or a Cannon as the game makes them, at any start
\* and any angle a plane can be turned to.
EntityInit ==
    /\ \E c \in EntityCoords, k \in -MaxTurn..MaxTurn, s \in EntitySpeeds,
          inf \in BOOLEAN :
          ent = [coordinates |-> c, angle_of_attack |-> k, angle_err |-> 0,
                 for_deletion |-> FALSE, speed2 |-> s, infinite |-> inf,
                 hull_integrity |-> FULL_HULL]
    /\ elist = IF ent.infinite THEN <<>> ELSE <<ent>>
    /\ eop = "none"
    /\ ecalls = 0

EntityStart ==
    GameInit /\ GunIdle /\ RelayInit /\ PairIdle /\ TwinIdle /\ ClientIdle /\ EntityInit /\ AnimIdle /\ SmokeIdle /\ MenuIdle

NotEntity == UNCHANGED <<gamevars, gunvars, relayvars, pairvars, twinvars, clivars, animvars, smokevars, menuvars>>

\* Projectile._move of an entity that is still in play.
Move ==
    /\ ecalls < MaxEntityCalls
    /\ ~ent.for_deletion
    /\ ent.infinite \/ elist # <<>>
    /\ ent' = _move(ent, ent.speed2, ent.infinite)
    /\ elist' = IF elist = <<>> THEN elist ELSE <<ent'>>
    /\ eop' = "move"
    /\ ecalls' = ecalls + 1
    /\ NotEntity

\* Game.next_frame: "self.cannons = [c for c in self.cannons if not
\* c.for_deletion]" on the list that holds the cannon.
ReapEntity ==
    /\ ecalls < MaxEntityCalls
    /\ elist # <<>>
    /\ elist' = Reap(elist)
    /\ eop' = "reap"
    /\ ecalls' = ecalls + 1
    /\ UNCHANGED ent
    /\ NotEntity

\* Projectile._change_pitch(up) of a plane.
Pitch(up) ==
    /\ ecalls < MaxEntityCalls
    /\ ent.infinite
    /\ _change_pitch(ent, up).angle_of_attack \in -(MaxTurn + 1)..(MaxTurn + 1)
    /\ ent' = _change_pitch_double(ent, up)
    /\ UNCHANGED elist
    /\ eop' = IF up THEN "up" ELSE "down"
    /\ ecalls' = ecalls + 1
    /\ NotEntity

EntityNext == Move \/ ReapEntity \/ Pitch(TRUE) \/ Pitch(FALSE)

EntitySpec == EntityStart /\ [][EntityNext]_vars

\* --------------------------------------------------------------- AnimSpec
\* The game's list of animations: planes hand sprites over, and every tick
\* reaps the list and advances what is left.
\* Ticks played.
MaxAnimTicks == 22
\* Sprites in the list at a time.
MaxAnims == 2

AnimKinds == {"PlaneSmoke", "PlaneExplosion"}

\* The sprites of a list that the reap keeps, by their place in the list.
kept(list) ==
    SelectSeq([k \in 1..Len(list) |-> k], LAMBDA k : ~list[k].for_deletion)

AnimInit ==
    /\ anims = <<>>
    /\ aborn = <<>>
    /\ atick = 0

AnimStart ==
    GameInit /\ GunIdle /\ RelayInit /\ PairIdle /\ TwinIdle /\ ClientIdle /\ EntityIdle /\ AnimInit /\ SmokeIdle /\ MenuIdle

NotAnim == UNCHANGED <<gamevars, gunvars, relayvars, pairvars, twinvars, clivars, entvars, smokevars, menuvars>>

\* next_frame, plane loop: "self.animations.extend(plane.animations)" with
\* a sprite the plane spawned in the tick that is being played.
HandOver(kind) ==
    /\ atick < MaxAnimTicks
    /\ Len(anims) < MaxAnims
    /\ anims' = Append(anims, NewAnim(kind, START_COORDS_ONE, 0))
    /\ aborn' = Append(aborn, atick + 1)
    /\ UNCHANGED atick
    /\ NotAnim

\* next_frame, "play animations": the reap of the list, then next_frame on
\* every sprite left; the tick is over.
PlayTick ==
    /\ atick < MaxAnimTicks
    /\ anims' = [k \in 1..Len(Reap(anims)) |-> anim_next_frame(Reap(anims)[k])]
    /\ aborn' = [k \in 1..Len(kept(anims)) |-> aborn[kept(anims)[k]]]
    /\ atick' = atick + 1
    /\ NotAnim

AnimNext == (\E kind \in AnimKinds : HandOver(kind)) \/ PlayTick

AnimSpec == AnimStart /\ [][AnimNext]_vars

\* -------------------------------------------------------------- SmokeSpec
\* One plane flying straight on, tick by tick, and taking cannon hits: the
\* plane's visit of next_frame, the cannon loop, the animations.
\* Ticks played.
MaxSmokeTicks == 6
\* Damage of the cannons that hit the plane.
SmokeDamage == 35

\* A cannon that has reached the cell of plane p.
CannonAt(p) ==
    [coordinates |-> Cell(resolve(p.coordinates).y, resolve(p.coordinates).x),
     angle_of_attack |-> 0, damage |-> SmokeDamage, for_deletion |-> FALSE,
     owner |-> 0, born |-> 0, updates |-> 0]

SmokeInit ==
    /\ splane = NewPlane(START_COORDS_ONE, START_ANGLE_ONE)
    /\ sanims = <<>>
    /\ stick = 0
    /\ spc = "plane"

SmokeStart ==
    GameInit /\ GunIdle /\ RelayInit /\ PairIdle /\ TwinIdle /\ ClientIdle /\ EntityIdle /\ AnimIdle /\ SmokeInit /\ MenuIdle

NotSmoke == UNCHANGED <<gamevars, gunvars, relayvars, pairvars, twinvars, clivars, entvars, animvars, menuvars>>

\* next_frame, the visit of the plane (no key pressed): plane.draw, the
\* gun's reload, and the plane's animations handed to the game.
PlaneVisit ==
    /\ spc = "plane"
    /\ stick < MaxSmokeTicks
    /\ ~splane.for_deletion
    /\ LET p == Plane_draw(splane)
       IN  /\ sanims' = sanims \o p.animations
           /\ splane' = [p EXCEPT !.gun = gun_tick(@, stick),
                                  !.animations = <<>>]
    /\ spc' = "cannons"
    /\ UNCHANGED stick
    /\ NotSmoke

\* next_frame, the cannon loop: a cannon in the plane's cell hits it, or no
\* cannon is there.
CannonLoop ==
    /\ spc = "cannons"
    /\ \/ splane' = check_hit_one([planes |-> <<splane>>,
                                    cannon |-> CannonAt(splane),
                                    hit |-> FALSE], 1).planes[1]
       \/ UNCHANGED splane
    /\ spc' = "anims"
    /\ UNCHANGED <<sanims, stick>>
    /\ NotSmoke

\* next_frame, "play animations": the reap, then next_frame on every
\* sprite left; the tick is over.
PlaySprites ==
    /\ spc = "anims"
    /\ sanims' = [k \in 1..Len(Reap(sanims)) |-> anim_next_frame(Reap(sanims)[k])]
    /\ stick' = stick + 1
    /\ spc' = "plane"
    /\ UNCHANGED splane
    /\ NotSmoke

SmokeNext == PlaneVisit \/ CannonLoop \/ PlaySprites

SmokeSpec == SmokeStart /\ [][SmokeNext]_vars

\* --------------------------------------------------------------- MenuSpec
\* StartMenu, opened and driven by key presses.
\* Characters a text field holds at most.
MaxText == 1

\* StartMenu.__post_init__: the seven fields, with index 0 first.  The
\* saved callsigns and planes are the values close_menu wrote.
FieldCount == 7
LastField == FieldCount - 1
Labels == <<"Game type", "Host IP", "Host port", "Player 1 callsign",
            "Player 1 plane", "Player 2 callsign", "Player 2 plane">>
GameTypes == <<"Local", "Network">>
PlaneTypes == <<"BF109", "P51">>
selection(i) == IF i = 0 THEN GameTypes ELSE PlaneTypes
is_selection(i) == i \in {0, 4, 6}
Texts == UNION {[1..n -> {"a"}] : n \in 0..MaxText}

NewField(i, display_value) ==
    [label |-> Labels[i + 1], display_value |-> display_value,
     is_visible |-> i \notin {1, 2}, is_active |-> FALSE]

\* The key presses getch returns: the navigation keys, a printable
\* character, backspace, space, Q, and a key no branch reads.
MenuKeys == {"KEY_UP", "KEY_DOWN", "ENTER_KEY", "KEY_LEFT", "KEY_RIGHT",
             "a", "KEY_BACKSPACE", "SPACE_KEY", "Q_KEY", "KEY_HOME"}

\* SwitchLocal.run_action and SwitchNetwork.run_action
SwitchLocal(fs) ==
    [i \in DOMAIN fs |->
        [fs[i] EXCEPT !.is_visible = fs[i].label \notin {"Host IP", "Host port"}]]

SwitchNetwork(fs) ==
    [i \in DOMAIN fs |->
        [fs[i] EXCEPT !.is_visible =
            fs[i].label \notin {"Player 2 callsign", "Player 2 plane"}]]

\* The index of a value in a selection, 0 first.
index_of(sel, value) == CHOOSE k \in 0..(Len(sel) - 1) : sel[k + 1] = value

\* SelectionField.read_key of field i: the new index, the action of the
\* selected entry if it has one, then the display value.
Selection_read_key(fs, i, key) ==
    LET sel == selection(i)
        curr == index_of(sel, fs[i].display_value)
        idx == IF key = "KEY_LEFT"
               THEN (IF curr - 1 < 0 THEN Len(sel) - 1 ELSE curr - 1)
               ELSE IF key = "KEY_RIGHT"
               THEN (IF curr + 1 > Len(sel) - 1 THEN 0 ELSE curr + 1)
               ELSE curr
        value == sel[idx + 1]
        acted == IF i # 0 THEN fs
                 ELSE IF value = "Local" THEN SwitchLocal(fs)
                 ELSE SwitchNetwork(fs)
    IN  [acted EXCEPT ![i].display_value = value]

\* TextField.read_key of field i
Text_read_key(fs, i, key) ==
    IF key = "a" THEN [fs EXCEPT ![i].display_value = Append(@, "a")]
    ELSE IF key = "KEY_BACKSPACE" /\ fs[i].display_value # <<>>
    THEN [fs EXCEPT ![i].display_value = SubSeq(@, 1, Len(@) - 1)]
    ELSE fs

read_key(fs, i, key) ==
    IF is_selection(i) THEN Selection_read_key(fs, i, key)
    ELSE Text_read_key(fs, i, key)

\* The loop of _go_prev_field (step -1) and _go_next_field (step 1): the
\* indices it visits from idx, wrapping, until one is visible.  With no
\* visible field the loop never ends.
visits(idx, step, k) == (idx + step * k) % FieldCount
search(fs, idx, step) ==
    LET found == {k \in 1..FieldCount : fs[visits(idx, step, k)].is_visible}
    IN  IF found = {} THEN [ends |-> FALSE, idx |-> idx]
        ELSE [ends |-> TRUE,
              idx |-> visits(idx, step,
                             CHOOSE k \in found : \A j \in found : k <= j)]

\* The loop of m, the menu's fields, its active index and whether its
\* search loops ended: the active field is made inactive, then the first
\* visible field found is made active.
go_field(m, step) ==
    LET off == [m.fields EXCEPT ![m.active_field_idx].is_active = FALSE]
        r == search(off, m.active_field_idx, step)
    IN  IF r.ends
        THEN [m EXCEPT !.fields = [off EXCEPT ![r.idx].is_active = TRUE],
                       !.active_field_idx = r.idx]
        ELSE [m EXCEPT !.fields = off, !.ends = FALSE]

\* Menu._go_prev_field
_go_prev_field(m) == go_field(m, -1)

\* _go_next_field stopping on the next field, visible or not.
_go_next_field_any(m) ==
    LET idx == visits(m.active_field_idx, 1, 1)
    IN  [m EXCEPT !.fields = [[@ EXCEPT ![m.active_field_idx].is_active = FALSE]
                                 EXCEPT ![idx].is_active = TRUE],
                  !.active_field_idx = idx]

\* Menu._go_next_field
_go_next_field(m) == go_field(m, 1)

MenuInit ==
    /\ \E p1 \in Texts, p2 \in Texts, host \in Texts, port \in Texts :
       \E plane1 \in 1..2, plane2 \in 1..2 :
          fields = [i \in 0..LastField |->
                       NewField(i, CASE i = 0 -> "Local"
                                     [] i = 1 -> host
                                     [] i = 2 -> port
                                     [] i = 3 -> p1
                                     [] i = 4 -> PlaneTypes[plane1]
                                     [] i = 5 -> p2
                                     [] i = 6 -> PlaneTypes[plane2])]
    /\ active_field_idx = 0
    /\ mpc = "open_menu"

MenuStart ==
    GameInit /\ GunIdle /\ RelayInit /\ PairIdle /\ TwinIdle /\ ClientIdle /\ EntityIdle /\ AnimIdle /\ SmokeIdle /\ MenuInit

NotMenu == UNCHANGED <<gamevars, gunvars, relayvars, pairvars, twinvars, clivars, entvars, animvars, smokevars>>

\* open_menu up to its loop: the field at the active index is made active.
OpenMenu ==
    /\ mpc = "open_menu"
    /\ fields' = [fields EXCEPT ![active_field_idx].is_active = TRUE]
    /\ mpc' = "getch"
    /\ UNCHANGED active_field_idx
    /\ NotMenu

\* One pass of the loop of open_menu for the key press getch returned:
\* the four tests in turn, then read_key of the field that is active now.
KeyPress(key) ==
    /\ mpc = "getch"
    /\ key = "a" => Len(fields[active_field_idx].display_value) < MaxText
                    \/ is_selection(active_field_idx)
    /\ LET m0 == [fields |-> fields, active_field_idx |-> active_field_idx,
                  ends |-> TRUE]
           m1 == IF key = "KEY_UP" THEN _go_prev_field(m0) ELSE m0
           m2 == IF key \in {"KEY_DOWN", "ENTER_KEY"} /\ m1.ends
                 THEN _go_next_field(m1) ELSE m1
       IN  IF ~m2.ends
           THEN /\ mpc' = "hang"
                /\ fields' = m2.fields
                /\ active_field_idx' = m2.active_field_idx
           ELSE IF key = "Q_KEY"
           THEN /\ mpc' = "exit"
                /\ UNCHANGED <<fields, active_field_idx>>
           ELSE IF key = "SPACE_KEY"
           THEN /\ mpc' = "closed"
                /\ UNCHANGED <<fields, active_field_idx>>
           ELSE /\ mpc' = "getch"
                /\ fields' = read_key(m2.fields, m2.active_field_idx, key)
                /\ active_field_idx' = m2.active_field_idx
    /\ NotMenu

MenuNext == OpenMenu \/ \E key \in MenuKeys : KeyPress(key)

MenuSpec == MenuStart /\ [][MenuNext]_vars

\* =================================================================== claims
IsSeqOfExplosions(q, offsets, coordinates) ==
    /\ Len(q) = Len(offsets)
    /\ \A k \in 1..Len(q) :
          /\ q[k].kind = "PlaneExplosion"
          /\ q[k].offset = offsets[k]
          /\ q[k].coordinates = coordinates
          /\ q[k].frames = EXPLOSION_FRAMES

\* A step of the main loop that resets the plane of the player in turn.
ResetDue == pc = "reset" /\ planes[cur].for_deletion

\* C1: a plane marked for deletion is, at the start of its player's turn in
\* the next tick, back at full hull, unmarked, with a full chamber and not
\* reloading, at its player's starting coordinates and angle; the other
\* player's kills grow by exactly 1 and the owner's stay.
C1_ResetOnNextTick ==
    [][ResetDue =>
          /\ planes'[cur].hull_integrity = FULL_HULL
          /\ ~planes'[cur].for_deletion
          /\ planes'[cur].gun.rounds_in_chamber = planes'[cur].gun.capacity
          /\ ~planes'[cur].gun.is_reloading
          /\ planes'[cur].coordinates = start_coords[cur]
          /\ planes'[cur].angle_of_attack = start_angles[cur]
          /\ kills'[Other(cur)] = kills[Other(cur)] + 1
          /\ kills'[cur] = kills[cur]]_vars

\* C2: the forced reload of the plane reset fills the chamber, ends the
\* reloading and raises nothing, from every gun state, so that the tick
\* goes on with the player's input.
C2_ForcedReloadCompletes ==
    [][ResetDue =>
          /\ err' = "none"
          /\ pc' = "parse_key"
          /\ planes'[cur].gun.rounds_in_chamber = planes'[cur].gun.capacity
          /\ ~planes'[cur].gun.is_reloading]_vars

\* C3: from the cannon hit that brings its hull to 0 or below until its
\* reset, a plane's pitch is not changed and it fires no cannon.
C3_DestroyedPlaneDoesNotAct ==
    [][\A i \in Players :
          (planes[i].hull_integrity <= 0 /\ ~(pc = "reset" /\ cur = i)) =>
              /\ planes'[i].angle_of_attack = planes[i].angle_of_attack
              /\ planes'[i].fired_cannon = planes[i].fired_cannon
              /\ (pc = "parse_key" /\ cur = i => cannons' = cannons)]_vars

\* C4, as stated: a cannon fired in the running tick has not been updated.
C4_NewCannonWaits ==
    \A k \in 1..Len(cannons) : cannons[k].born = tick => cannons[k].updates = 0

\* The cannon loop of the running tick is over.
CannonsDone == pc = "read_key" \/ (pc = "update" /\ ci > Len(cannons))

\* C4, amended: a fired cannon is in the shared list (no plane keeps one
\* queued) and gets its first update in the cannon loop of the tick it was
\* fired in, one update in every later tick: once the loop of a tick has
\* passed it, a cannon fired in tick b has had tick - b + 1 updates.
C4_FirstUpdateInSameTick ==
    /\ \A i \in Players : planes[i].fired_cannon = <<>>
    /\ \A k \in 1..Len(cannons) :
          cannons[k].updates =
              (tick - cannons[k].born)
              + (IF CannonsDone \/ (pc = "update" /\ k < ci) THEN 1 ELSE 0)

C4_Witness ==
    /\ CannonsDone
    /\ \E k \in 1..Len(cannons) :
          cannons[k].born = tick /\ cannons[k].updates = 1

\* C5: in an update of a cannon, every plane in the cell of the cannon's hit
\* check (the cannon's cell before the move, or after the move when no
\* plane is in the cell before it) loses exactly the cannon's damage and
\* gets exactly 3 PlaneExplosion sprites appended to its queue, and the
\* cannon is marked for deletion; every other plane is unchanged.
C5_HitResolution ==
    [][(pc = "update" /\ ci <= Len(cannons)) =>
          LET c == cannons[ci]
              before == resolve(c.coordinates)
              after == resolve(Advance(c.coordinates, c.angle_of_attack,
                                       CANNON_SPEED2))
              early == \E j \in Players : resolve(planes[j].coordinates) = before
              at == IF early THEN before ELSE after
          IN  \A i \in Players :
                 IF resolve(planes[i].coordinates) = at
                 THEN /\ planes'[i].hull_integrity =
                            planes[i].hull_integrity - c.damage
                      /\ cannons'[ci].for_deletion
                      /\ Len(planes'[i].animations) = Len(planes[i].animations) + 3
                      /\ SubSeq(planes'[i].animations, 1, Len(planes[i].animations))
                            = planes[i].animations
                      /\ IsSeqOfExplosions(
                             SubSeq(planes'[i].animations,
                                    Len(planes[i].animations) + 1,
                                    Len(planes'[i].animations)),
                             HitOffsets, cannons'[ci].coordinates)
                 ELSE planes'[i] = planes[i]]_vars

C5_Witness ==
    /\ pc = "update"
    /\ ci > 1
    /\ ci - 1 <= Len(cannons)
    /\ cannons[ci - 1].for_deletion
    /\ \E i \in Players :
          /\ planes[i].hull_integrity = FULL_HULL - cannons[ci - 1].damage
          /\ Len(planes[i].animations) = 3
          /\ resolve(planes[i].coordinates) = resolve(cannons[ci - 1].coordinates)

\* C6: the advance step of a plane whose hull is at 0 or below appends
\* exactly 5 sprites, PlaneExplosion with the offsets -2..2, and marks the
\* plane; the advance step of a plane with hull above 0 adds no explosion
\* and leaves the plane unmarked.
C6_DeathSequence ==
    [][pc = "draw" =>
          LET p == planes[cur]
              q == planes'[cur]
          IN  IF p.hull_integrity <= 0
              THEN /\ Len(q.animations) = Len(p.animations) + 5
                   /\ SubSeq(q.animations, 1, Len(p.animations)) = p.animations
                   /\ IsSeqOfExplosions(
                          SubSeq(q.animations, Len(p.animations) + 1,
                                 Len(q.animations)),
                          DeathOffsets, q.coordinates)
                   /\ q.for_deletion
              ELSE /\ ~q.for_deletion
                   /\ Cardinality({k \in 1..Len(q.animations) :
                                      q.animations[k].kind = "PlaneExplosion"})
                      = Cardinality({k \in 1..Len(p.animations) :
                                      p.animations[k].kind = "PlaneExplosion"})]_vars

C6_Witness ==
    /\ pc = "post"
    /\ planes[cur].for_deletion
    /\ planes[cur].hull_integrity <= 0
    /\ Len(planes[cur].animations) = 8

\* A step that is a call of fire on the gun driven by GunSpec.
FireCall == gret'.call = "fire" /\ gclock' = gclock

\* C7: from a full chamber, each of capacity consecutive calls of fire
\* returns a Cannon with the gun's damage and takes exactly one round; the
\* last one leaves 0 rounds, sets is_reloading and records last_fired; no
\* earlier one sets is_reloading.  gcalls counts the calls that fired since
\* the chamber was last full.
C7_FireEmptiesChamber ==
    /\ [](~gun.is_reloading =>
             /\ gcalls < gun.capacity
             /\ gun.rounds_in_chamber = gun.capacity - gcalls)
    /\ [][(FireCall /\ ~gun.is_reloading) =>
             /\ gret'.cannon
             /\ gret'.damage = gun.damage
             /\ gun'.rounds_in_chamber = gun.rounds_in_chamber - 1
             /\ gcalls' = gcalls + 1
             /\ IF gcalls' = gun.capacity
                THEN /\ gun'.rounds_in_chamber = 0
                     /\ gun'.is_reloading
                     /\ gun'.last_fired = gclock
                ELSE /\ ~gun'.is_reloading
                     /\ gun'.last_fired = gun.last_fired]_vars

C7_Witness ==
    /\ gret.call = "fire"
    /\ gret.cannon
    /\ gun.capacity = MaxCapacity
    /\ gcalls = gun.capacity
    /\ gun.rounds_in_chamber = 0
    /\ gun.is_reloading

\* The player in turn fires a cannon in its parse_key step.
FiresNow == pc = "parse_key" /\ Len(cannons') > Len(cannons)

\* The reload_chamber() call of the player in turn, made when the reload
\* time has passed, restores the chamber.
TimedReloadRestores ==
    (pc = "post" /\ planes[cur].gun.is_reloading
       /\ now - planes[cur].gun.last_fired > planes[cur].gun.reload_time) =>
        /\ planes'[cur].gun.rounds_in_chamber = planes[cur].gun.capacity
        /\ ~planes'[cur].gun.is_reloading

\* C8, as stated: a gun that has emptied its chamber fires only once
\* now - last_fired > reload_time, and the reload_chamber() call made then
\* restores the chamber.
C8_NoFireBeforeReloadTime ==
    [][/\ (FiresNow /\ planes[cur].gun.last_fired # NoneT) =>
              now - planes[cur].gun.last_fired > planes[cur].gun.reload_time
       /\ TimedReloadRestores]_vars

\* C8, amended: a reloading gun fires nothing, and it stops reloading, with
\* a full chamber, only by the reload_chamber() call of a tick in which
\* now - last_fired > reload_time (strictly) or by the reset of its plane;
\* the reload_chamber() call made once the time has passed restores the
\* chamber.
C8_ReloadOnlyByTimeOrReset ==
    [][/\ FiresNow => ~planes[cur].gun.is_reloading
       /\ \A i \in Players :
             (planes[i].gun.is_reloading /\ ~planes'[i].gun.is_reloading) =>
                 /\ planes'[i].gun.rounds_in_chamber = planes[i].gun.capacity
                 /\ cur = i
                 /\ \/ /\ pc = "post"
                       /\ now - planes[i].gun.last_fired
                             > planes[i].gun.reload_time
                    \/ pc = "reset" /\ planes[i].for_deletion
       /\ TimedReloadRestores]_vars

C8_Witness ==
    /\ pc \in {"reset", "cannons"}
    /\ kills = <<0, 0>>
    /\ \E i \in Players :
          /\ planes[i].gun.last_fired # NoneT
          /\ ~planes[i].gun.is_reloading
          /\ planes[i].gun.rounds_in_chamber = planes[i].gun.capacity
          /\ now - planes[i].gun.last_fired = planes[i].gun.reload_time + 1

\* C9: a shoot input to a plane whose gun is reloading leaves the gun
\* (rounds_in_chamber, last_fired, is_reloading), the plane's fired_cannon
\* queue and the game's cannon list unchanged.
C9_ReloadingFireIsNoOp ==
    [][(pc = "parse_key" /\ keys[cur] = "shoot"
          /\ planes[cur].gun.is_reloading) =>
          /\ planes'[cur].gun = planes[cur].gun
          /\ planes'[cur].fired_cannon = planes[cur].fired_cannon
          /\ cannons' = cannons]_vars

C9_Witness ==
    /\ pc = "draw"
    /\ keys[cur] = "shoot"
    /\ planes[cur].gun.is_reloading
    /\ planes[cur].gun.last_fired < now

\* C10: the pair the relay delivers to one client for a tick is the pair
\* it delivers to the other client for that tick.  The first delivery to
\* a client is the pair of callsigns, the n-th after it the pair of tick n.
\* Only the two clients of the game are connected.
C10_SamePairToBoth ==
    cpc[3] = "off" =>
    \A n \in 2..Len(delivered[1]) :
        n <= Len(delivered[2]) => delivered[1][n] = delivered[2][n]

\* Only the two clients of the game have ever connected.
TwoClients == cpc[3] = "off"

\* The pair client c played tick n with holds, for each of the two
\* clients, the key that client sent for tick n.  A client's first send is
\* its callsign and the first pair it receives the pair of callsigns.
PairOfTick(c, n) ==
    /\ Len(delivered[c]) >= n + 1
    /\ DOMAIN delivered[c][n + 1] = {conn_id[o] : o \in Pair}
    /\ \A o \in Pair :
          /\ Len(sent[o]) >= n + 1
          /\ delivered[c][n + 1][conn_id[o]] = sent[o][n + 1]

\* C11: a client has played tick n only after it received the merged pair
\* that holds both players' inputs for tick n, and the tick counters of the
\* two clients differ by at most one.
C11_LockstepBarrier ==
    TwoClients =>
        /\ \A c \in Pair : \A n \in 1..ctick[c] : PairOfTick(c, n)
        /\ ctick[1] - ctick[2] \in {-1, 0, 1}

\* The relay sends a message to connection c in this step.
SendsTo(c) == delivered'[c] # delivered[c]

\* The message the relay sends to connection c in this step.
Sending(c) == delivered'[c][Len(delivered'[c])]

\* C12: whatever the relay sends to a connection is the content of the
\* buffer at that moment, and the buffer then holds the entries of exactly
\* two clients; with fewer or more entries nothing is sent.
C12_SendsOnlyCompletePair ==
    [][\A c \in Clients :
          SendsTo(c) =>
              /\ Len(delivered'[c]) = Len(delivered[c]) + 1
              /\ Cardinality(DOMAIN Sending(c)) = 2
              /\ \/ DATA_BUFFER' = EmptyBuffer
                 \/ only_data(DATA_BUFFER') = Sending(c)]_vars

C12_Witness ==
    /\ Cardinality(DOMAIN DATA_BUFFER) = 4
    /\ \E c \in Clients : delivered[c] # <<>>

\* The connections noted in the buffer's 'sent_to'.
SentTo == {DATA_BUFFER["sent_to"].v[k] : k \in 1..Len(DATA_BUFFER["sent_to"].v)}

\* The relay clears the buffer in this step, after its send to c.
ClearsAfter(c) == SendsTo(c) /\ DATA_BUFFER' = EmptyBuffer

\* C13: when the relay clears the buffer, each of the two clients whose
\* inputs the buffer holds has been sent the merged pair.
C13_ClearsAfterBothServed ==
    [][\A c \in Clients :
          ClearsAfter(c) =>
              \A o \in Clients :
                  conn_id[o] \in DOMAIN Sending(c) => o \in SentTo \cup {c}]_vars

\* C14: from the buffer becoming complete until it is cleared, a
\* connection is sent the pair at most once: the relay sends only to a
\* connection not yet noted in 'sent_to', notes it with the send, notes no
\* connection twice and forgets a noted connection only by clearing the
\* buffer.
C14_OncePerRound ==
    /\ [](Cardinality(SentTo) = Len(DATA_BUFFER["sent_to"].v))
    /\ [][/\ \A c \in Clients :
                SendsTo(c) =>
                    /\ c \notin SentTo
                    /\ Len(delivered'[c]) = Len(delivered[c]) + 1
                    /\ \/ DATA_BUFFER' = EmptyBuffer
                       \/ c \in {DATA_BUFFER'["sent_to"].v[k] :
                                    k \in 1..Len(DATA_BUFFER'["sent_to"].v)}
          /\ \/ DATA_BUFFER' = EmptyBuffer
             \/ \A c \in SentTo :
                   c \in {DATA_BUFFER'["sent_to"].v[k] :
                             k \in 1..Len(DATA_BUFFER'["sent_to"].v)}]_vars

C14_Witness ==
    /\ Cardinality(DOMAIN DATA_BUFFER) = 3
    /\ \E c \in Pair :
          /\ SentTo = {c}
          /\ Len(delivered[c]) = 2
          /\ s2c[c] = <<>>

\* The relay gets the empty read of connection c in this step.
EmptyRead(c) == c \in registered /\ c \notin gone /\ c \in gone'

\* C15: on the empty read of a connection the relay unregisters and closes
\* it and goes on serving, whatever the buffer holds and whatever the
\* readiness flags of the event.
C15_EmptyReadNotFatal ==
    [][\A c \in Clients :
          EmptyRead(c) => (c \notin registered' /\ srv' = "up")]_vars

\* The relay reads the bytes that wait of connection c in this step.
Reads(c) == c2s[c] # <<>> /\ c2s'[c] = <<>>

\* The entry of message msg is in the buffer after the step, or in the
\* pair the step has sent before clearing the buffer.
Accepted(msg) ==
    \A k \in DOMAIN msg :
        \/ k \in DOMAIN DATA_BUFFER' /\ DATA_BUFFER'[k] = msg[k]
        \/ \E d \in Clients :
              /\ ClearsAfter(d)
              /\ k \in DOMAIN Sending(d)
              /\ Sending(d)[k] = msg[k]

\* C16: bytes that fail JSON decoding are dropped silently: the relay
\* stays up, the connection stays registered and open, the buffer and its
\* 'sent_to' are as the write branch alone leaves them (a pair sent in the
\* same call is the buffer as it was before the read); a well-formed
\* message read later from that connection is accepted.
C16_MalformedDropped ==
    [][\A c \in Clients :
          /\ (Reads(c) /\ ~decodes(c2s[c])) =>
                /\ srv' = "up"
                /\ c \in registered'
                /\ gone' = gone
                /\ ~SendsTo(c) => DATA_BUFFER' = DATA_BUFFER
                /\ SendsTo(c) =>
                      /\ Sending(c) = only_data(DATA_BUFFER)
                      /\ c \notin SentTo
                      /\ \/ DATA_BUFFER' = EmptyBuffer
                         \/ /\ only_data(DATA_BUFFER') = only_data(DATA_BUFFER)
                            /\ DATA_BUFFER'["sent_to"].v
                                  = Append(DATA_BUFFER["sent_to"].v, c)
          /\ (Reads(c) /\ decodes(c2s[c]) /\ c \in dropt) =>
                Accepted(c2s[c][1])]_vars

C16_Witness ==
    /\ 3 \in dropt
    /\ 3 \in registered
    /\ c2s[3] = <<>>
    /\ conn_id[3] \in DOMAIN DATA_BUFFER
    /\ \E c \in Pair : conn_id[c] \in DOMAIN DATA_BUFFER

\* Both clients of the game have been sent the pair of callsigns.
Paired == \A c \in Pair : delivered[c] # <<>>

\* C17, as stated: once one of the two paired clients has disconnected,
\* the relay delivers no pair to the other one.
C17_NoDeliveryAfterDisconnect ==
    [][(TwoClients /\ Paired) =>
          \A b \in Pair : \A a \in Pair \ {b} :
              b \in closed => ~SendsTo(a)]_vars

\* Nothing more can be delivered to client a after client b has left: the
\* relay has closed b's connection, and a is noted in 'sent_to' or the
\* buffer holds no entry of b.
Stalled(a, b) ==
    /\ b \in gone
    /\ \/ a \in SentTo
       \/ conn_id[b] \notin DOMAIN DATA_BUFFER

\* C17, amended: once the relay has closed the connection of the client
\* that disconnected, it delivers at most one more pair to the other
\* client, the one that holds the last entry of the disconnected client,
\* and none after it, whatever the other client sends.
C17_StallsAfterLastPair ==
    [][TwoClients =>
          \A b \in Pair : \A a \in Pair \ {b} :
              /\ (b \in gone /\ SendsTo(a)) =>
                    /\ ~Stalled(a, b)
                    /\ conn_id[b] \in DOMAIN Sending(a)
                    /\ Stalled(a, b)'
              /\ Stalled(a, b) => (Stalled(a, b)' /\ ~SendsTo(a))]_vars

C17_Witness ==
    /\ TwoClients
    /\ srv = "up"
    /\ \E b \in Pair : \E a \in Pair \ {b} :
          /\ b \in gone
          /\ SentTo = {a}
          /\ ctick[a] >= 1
          /\ cpc[a] = "await_keys"
          /\ Len(sent[a]) = ctick[a] + 2
          /\ c2s[a] = <<>>
          /\ s2c[a] = <<>>

\* C18: whatever the order in which two clients report, a client that has
\* provisioned gave the lexicographically smaller identifier, with its
\* callsign, to the first player and the first plane (first colour, start
\* coordinates and angle) and the larger to the second, and two clients
\* that have provisioned hold the same assignment.
C18_SmallerIdFirstSlot ==
    /\ \A c \in Pair :
          players[c] # <<>> =>
              /\ Len(players[c]) = 2
              /\ {players[c][i].player_id : i \in 1..2} = {uuid4[d] : d \in Pair}
              /\ str_lt(players[c][1].player_id, players[c][2].player_id)
              /\ \A i \in 1..2 : \A d \in Pair :
                    players[c][i].player_id = uuid4[d] => players[c][i].callsign = d
              /\ players[c][1].plane.color_pair = 1
              /\ players[c][1].plane.coordinates = START_COORDS_ONE
              /\ players[c][1].plane.angle_of_attack = START_ANGLE_ONE
              /\ players[c][2].plane.color_pair = 2
              /\ players[c][2].plane.coordinates = START_COORDS_TWO
              /\ players[c][2].plane.angle_of_attack = START_ANGLE_TWO
    /\ \A c, d \in Pair :
          (players[c] # <<>> /\ players[d] # <<>>) => players[c] = players[d]

\* Both clients have provisioned from a message in which the larger
\* identifier, a proper extension of the smaller, came first.
C18_Witness ==
    /\ Len(items) = 2
    /\ str_lt(items[2][1], items[1][1])
    /\ Len(items[2][1]) < Len(items[1][1])
    /\ \A c \in Pair : players[c] # <<>>

\* The simulation state of a client: of each plane the coordinates, the
\* angle, the hull integrity, the gun's rounds and reloading flag and
\* for_deletion; the cannon list; the kill counts.
SimState(g) ==
    [planes |-> [i \in Players |->
                    [coordinates |-> g.planes[i].coordinates,
                     angle_of_attack |-> g.planes[i].angle_of_attack,
                     hull_integrity |-> g.planes[i].hull_integrity,
                     rounds_in_chamber |-> g.planes[i].gun.rounds_in_chamber,
                     is_reloading |-> g.planes[i].gun.is_reloading,
                     for_deletion |-> g.planes[i].for_deletion]],
     cannons |-> g.cannons,
     kills |-> g.kills]

\* C19: two clients that started from the same provisioned state and have
\* played the same merged input pairs hold the same simulation state after
\* every tick.
C19_TwinsAgree == SimState(twin[1]) = SimState(twin[2])

\* The keys client c has handed to its socket.
KeysSent(c) == Len(SelectSeq(sent[c], LAMBDA m : m.t # "callsign"))

\* C20: while both clients and the relay are up, a client that waits in
\* the receive loop of read_key has handed the tick's input, and the input
\* of every tick before it, to its socket: no send was dropped for good.
\* The loop only receives, so an input not handed over by then never is,
\* never reaches the relay, and read_key never returns.
C20_DroppedSendRetried ==
    (TwoClients /\ srv = "up" /\ closed = {}) =>
        \A c \in Pair :
            cpc[c] = "await_keys" => KeysSent(c) = ctick[c] + 1

\* A call of the Client method name has returned in this step.
Returned(name) == cret' # cret /\ cret'.call = name

\* C21: a send or a receive of a client whose socket, open and registered,
\* is reported neither readable nor writable within the timeout has no
\* effect: nothing is transmitted, nothing is read, receive returns None,
\* and the socket is still open and registered.
C21_TimeoutWithoutEffect ==
    [][\A name \in {"send", "receive"} :
          (Returned(name) /\ cret'.mask = {} /\ csock = "open" /\ cregistered) =>
              /\ wire_out' = wire_out
              /\ wire_in' = wire_in
              /\ cret'.recv_data = NoData
              /\ csock' = "open"
              /\ cregistered'
              /\ csel' = "open"]_vars

\* A receive of the main loop has timed out, after a send that went out.
C21_Witness ==
    /\ gpc = "running"
    /\ cret.call = "receive"
    /\ cret.mask = {}
    /\ cret.recv_data = NoData
    /\ wire_out # <<>>
    /\ csock = "open"
    /\ cregistered

\* C22: whenever close_game has returned after a keyboard interrupt, the
\* final receive was attempted and the client's socket is unregistered
\* and closed.
C22_ClosedAfterCloseGame ==
    gpc \in {"returned", "exit"} =>
        /\ cret.call = "close"
        /\ csock = "closed"
        /\ ~cregistered

\* The cell touches a bound of the arena.
Touches(cell) ==
    cell.y <= ULY \/ cell.y >= LRY \/ cell.x <= ULX \/ cell.x >= LRX

\* C23: a cannon whose cell after a move touches a bound of the arena is
\* marked for deletion and lies where the move put it, not translated by
\* the bound; the next reap takes a cannon marked for deletion out of the
\* cannon list.
C23_CannonDeletedAtBoundary ==
    [][/\ (eop' = "move" /\ ~ent.infinite /\ Touches(resolve(ent'.coordinates))) =>
             /\ ent'.for_deletion
             /\ ent'.coordinates =
                   Advance(ent.coordinates, ent.angle_of_attack, ent.speed2)
       /\ (eop' = "reap" /\ ent.for_deletion) => elist' = <<>>]_vars

\* A cannon moved onto the right bound has been reaped.
C23_Witness ==
    /\ eop = "reap"
    /\ ~ent.infinite
    /\ ent.for_deletion
    /\ resolve(ent.coordinates).x >= LRX
    /\ ~(resolve(ent.coordinates).y <= ULY)
    /\ ~(resolve(ent.coordinates).y >= LRY)
    /\ elist = <<>>

\* The coordinate v of an axis after the wrap: one arena span further when
\* its cell is at or before the near bound lo, one span back when it is at
\* or beyond the far bound hi, kept otherwise.
Wrapped(v, cell, lo, hi, span) ==
    IF cell <= lo THEN v + span * COORD_UNITS
    ELSE IF cell >= hi THEN v - span * COORD_UNITS
    ELSE v

Displaced(c, angle, speed2) ==
    Vec(c.y + resolve_direction(angle).y * speed2,
        c.x + resolve_direction(angle).x * speed2)

Abs(n) == IF n < 0 THEN -n ELSE n

UpThenDown(e) == _change_pitch_double(_change_pitch_double(e, TRUE), FALSE)

\* What a pitch input leaves alone.
PitchKeeps ==
    /\ ent'.coordinates = ent.coordinates
    /\ ent'.speed2 = ent.speed2
    /\ ent'.hull_integrity = ent.hull_integrity
    /\ ent'.for_deletion = ent.for_deletion

\* C26, as stated: a pitch input changes the angle by exactly
\* turning_circle, added for up and subtracted for down, never clamped or
\* normalised, so that an up followed by a down restores the angle; it
\* leaves coordinates, speed and hull integrity as they were.
C26_PitchExact ==
    /\ [](ent # <<>> => (ent.infinite => UpThenDown(ent) = ent))
    /\ [][eop' \in {"up", "down"} =>
             /\ ent'.angle_of_attack =
                   ent.angle_of_attack + (IF eop' = "up" THEN 1 ELSE -1) * TURNING_CIRCLE
             /\ ent'.angle_err = ent.angle_err
             /\ PitchKeeps]_vars

\* C26, amended: a pitch input changes the angle by turning_circle, added
\* for up and subtracted for down, rounded to the nearest double and never
\* clamped or normalised; an up followed by a down restores the angle to
\* within one unit in the last place; a pitch input leaves coordinates,
\* speed and hull integrity as they were.
C26_PitchRounded ==
    /\ [](ent # <<>> =>
            (ent.infinite =>
                /\ UpThenDown(ent).angle_of_attack = ent.angle_of_attack
                /\ Abs(UpThenDown(ent).angle_err - ent.angle_err)
                      <= granule(ent.angle_of_attack)))
    /\ [][eop' \in {"up", "down"} =>
             /\ ent'.angle_of_attack =
                   ent.angle_of_attack + (IF eop' = "up" THEN 1 ELSE -1) * TURNING_CIRCLE
             /\ 2 * Abs(ent'.angle_err - ent.angle_err)
                   <= granule(ent'.angle_of_attack)
             /\ PitchKeeps]_vars

\* A plane at ten turns has been pitched up and down again: its angle is
\* the double next below the one it had.
C26_Witness ==
    /\ eop = "down"
    /\ ecalls = 2
    /\ ent.angle_of_attack = 10
    /\ ent.angle_err = -8

\* The action the yoke of player i holds for a key, "none" when it holds none.
YokeEntry(i, key) == IF key \in DOMAIN yokes[i] THEN yokes[i][key] ELSE "none"

\* C27: in a local game every tick hands next_frame one key press per
\* player, player 1's first and player 2's second; its action is the entry
\* of that player's yoke for the key pressed, or none, so at most one
\* player gets an action; a player whose key press holds no action keeps
\* the pitch and the gun of their plane, and no cannon joins the game.
C27_OneKeyPressPerPlayer ==
    /\ [](/\ DOMAIN keys = 1..2
          /\ \E i \in Players : keys[i] = "none")
    /\ [][pc = "read_key" =>
             \E key \in Keys : \A i \in Players : keys'[i] = YokeEntry(i, key)]_vars
    /\ [][pc = "parse_key" /\ keys[cur] = "none" =>
             /\ planes'[cur].angle_of_attack = planes[cur].angle_of_attack
             /\ planes'[cur].gun = planes[cur].gun
             /\ planes'[3 - cur] = planes[3 - cur]
             /\ cannons' = cannons]_vars

\* Player 2 has pressed their key for up: player 1's key press held no
\* action and their plane kept its heading, player 2's plane has turned.
C27_Witness ==
    /\ pc = "cannons"
    /\ keys[1] = "none"
    /\ keys[2] = "up"
    /\ planes[1].angle_of_attack = start_angles[1]
    /\ planes[2].angle_of_attack = start_angles[2] + TURNING_CIRCLE

\* Client c's game is started: start_game has returned and the main loop
\* is in a tick.
Started(c) == cpc[c] \in {"read_key", "await_keys"}

\* A message holding the callsigns of exactly two clients that reported.
BootstrapPair(m) ==
    /\ Cardinality(DOMAIN m) = 2
    /\ \A id \in DOMAIN m :
          /\ m[id].t = "callsign"
          /\ \E d \in Clients : id = conn_id[d] /\ sent[d] # <<>>

\* C28: a network client's game is started, and a tick of it played, only
\* after the relay has delivered to it a message with the callsigns of
\* exactly two distinct clients; both of its players are then ready and
\* have a plane.  While only one client has reported, no game is started.
C28_StartsAfterPair ==
    \A c \in Clients :
        /\ (Started(c) \/ ctick[c] > 0) =>
              \E k \in 1..Len(delivered[c]) : BootstrapPair(delivered[c][k])
        /\ Started(c) =>
              /\ \A i \in 1..2 : net_players[c][i].ready
              /\ net_players[c][1].plane = "BF109"
              /\ net_players[c][2].plane = "P51"
        /\ Started(c) => Cardinality({d \in Clients : sent[d] # <<>>}) >= 2
        /\ ~Started(c) => net_players[c] = NewPlayers

\* A client has been delivered the pair, has started its game and played
\* its first tick.
C28_Witness ==
    \E c \in Pair :
        /\ cpc[c] = "read_key"
        /\ ctick[c] = 1
        /\ Len(delivered[c]) >= 2

\* READY: rounds in the chamber and not reloading.
READY(g) == g.rounds_in_chamber > 0 /\ ~g.is_reloading

\* RELOADING: an empty chamber and the reload under way.
RELOADING(g) == g.rounds_in_chamber = 0 /\ g.is_reloading

\* C29: the gun of every plane, whatever was fired, reloaded or reset,
\* holds between 0 and capacity rounds and is either READY or RELOADING,
\* never both and never neither.
C29_ReadyOrReloading ==
    \A i \in Players :
        LET g == planes[i].gun
        IN  /\ g.capacity >= 1
            /\ 0 <= g.rounds_in_chamber
            /\ g.rounds_in_chamber <= g.capacity
            /\ READY(g) # RELOADING(g)

\* A plane whose gun had fired has been shot down and reset, its chamber
\* is full; the other player has the kill and a gun that is reloading.
C29_Witness ==
    \E i \in Players :
        /\ kills[3 - i] > 0
        /\ planes[i].gun.last_fired # NoneT
        /\ planes[i].gun.rounds_in_chamber = planes[i].gun.capacity
        /\ planes[3 - i].gun.is_reloading

\* The planes that a cannon at the given coordinates hits.
HitBy(coordinates, ps) ==
    {i \in Players : resolve(ps[i].coordinates) = resolve(coordinates)}

\* Plane i took n hits of cannon c in the step: the damage and the three
\* explosions of each.
TookHits(i, c, n) ==
    /\ planes'[i].hull_integrity = planes[i].hull_integrity - n * c.damage
    /\ Len(planes'[i].animations) = Len(planes[i].animations) + 3 * n

\* C30: an update of a cannon checks every plane against the cannon where
\* it is; on a hit the cannon stays where it is, is marked, and each plane
\* in its cell is hit once; with no hit the cannon moves once and every
\* plane is checked against the place it moved to.
C30_CheckMoveCheck ==
    [][pc = "update" /\ ci <= Len(cannons) =>
          LET c == cannons[ci]
              after == cannons'[ci]
              before_move == HitBy(c.coordinates, planes)
              moved == Advance(c.coordinates, c.angle_of_attack, CANNON_SPEED2)
              after_move == HitBy(moved, planes)
          IN  /\ after.updates = c.updates + 1
              /\ \A k \in 1..Len(cannons) : k # ci => cannons'[k] = cannons[k]
              /\ IF before_move # {}
                 THEN /\ after.coordinates = c.coordinates
                      /\ after.for_deletion
                      /\ \A i \in Players :
                            TookHits(i, c, IF i \in before_move THEN 1 ELSE 0)
                 ELSE /\ after.coordinates = moved
                      /\ after_move # {} => after.for_deletion
                      /\ \A i \in Players :
                            TookHits(i, c, IF i \in after_move THEN 1 ELSE 0)]_vars

\* A cannon that has been updated is marked and lies in the cell of a plane
\* that carries the explosions of the hit.
C30_Witness ==
    /\ pc = "update"
    /\ ci > 1
    /\ ci <= Len(cannons) + 1
    /\ cannons[ci - 1].for_deletion
    /\ cannons[ci - 1].updates > 0
    /\ \E i \in Players :
          /\ i \in HitBy(cannons[ci - 1].coordinates, planes)
          /\ planes[i].hull_integrity < FULL_HULL
          /\ Len(planes[i].animations) >= 3

\* C31: a shoot key parsed while the player's gun is not reloading adds one
\* cannon to the game's list in that tick, with the gun's damage and the
\* plane's angle; any other key press adds none; between two ticks the
\* fired_cannon queue of every plane is empty.
C31_ShotJoinsCannons ==
    /\ [](pc # "parse_key" => \A i \in Players : planes[i].fired_cannon = <<>>)
    /\ [][pc = "parse_key" =>
             /\ planes'[cur].fired_cannon = <<>>
             /\ IF keys[cur] = "shoot" /\ ~planes[cur].gun.is_reloading
                THEN /\ Len(cannons') = Len(cannons) + 1
                     /\ SubSeq(cannons', 1, Len(cannons)) = cannons
                     /\ cannons'[Len(cannons')].damage = planes[cur].gun.damage
                     /\ cannons'[Len(cannons')].angle_of_attack =
                           planes[cur].angle_of_attack
                     /\ cannons'[Len(cannons')].born = tick
                ELSE cannons' = cannons]_vars

\* Player 2's shot has been parsed in this tick and its cannon is the last
\* of the game's list.
C31_Witness ==
    /\ pc = "draw"
    /\ cur = 2
    /\ keys[2] = "shoot"
    /\ cannons # <<>>
    /\ cannons[Len(cannons)].owner = 2
    /\ cannons[Len(cannons)].born = tick
    /\ planes[2].fired_cannon = <<>>

\* C32: every animation a plane gets during a tick, in the plane step or
\* from a cannon's hit, has been handed to the game's list when the tick
\* ends: between two ticks the animations queue of every plane is empty.
C32_AnimationsHandedOver ==
    pc = "read_key" => \A i \in Players : planes[i].animations = <<>>

\* The frames a sprite of the given kind is spawned with.
FramesOf(kind) == IF kind = "PlaneSmoke" THEN SMOKE_FRAMES ELSE EXPLOSION_FRAMES

\* The ticks that have advanced the k-th sprite of the list.
Advanced(k) == IF aborn[k] > atick THEN 0 ELSE atick - aborn[k] + 1

SmokePlaying ==
    {k \in 1..Len(sanims) :
        /\ sanims[k].kind = "PlaneSmoke"
        /\ sanims[k].frames > 0
        /\ resolve(sanims[k].coordinates) = resolve(splane.coordinates)}

\* The smokes among the sprites that the plane's visit adds to the list.
SmokeSpawned ==
    {k \in (Len(sanims) + 1)..Len(sanims') : sanims'[k].kind = "PlaneSmoke"}

\* C34: in its visit a plane spawns one PlaneSmoke, where it is before it
\* moves, exactly when its hull_integrity is below 40 and no smoke is
\* playing in its cell; otherwise it spawns none.
C34_SmokeOncePerCell ==
    [][spc = "plane" =>
          /\ Cardinality(SmokeSpawned) =
                IF splane.hull_integrity < SMOKE_HULL /\ SmokePlaying = {}
                THEN 1 ELSE 0
          /\ \A k \in SmokeSpawned :
                sanims'[k].coordinates = splane.coordinates]_vars

\* The sends client c has attempted: the callsign, and one key for every
\* tick it has started.
Attempts(c) ==
    (IF cpc[c] \in {"off", "provision"} THEN 0 ELSE 1)
    + ctick[c] + (IF cpc[c] = "await_keys" THEN 1 ELSE 0)

\* Both clients wait for a pair, nothing is on its way to or from the
\* relay, and the relay has nothing to send to either of them.
BothWaitForever ==
    \A c \in Pair :
        /\ cpc[c] \in {"await_pair", "await_keys"}
        /\ c \in registered
        /\ c2s[c] = <<>>
        /\ s2c[c] = <<>>
        /\ ~sends_to(DATA_BUFFER, c)

\* C35: while the two clients and the relay stay connected and no send is
\* dropped, every tick completes: the clients are never left waiting for a
\* pair that the relay will not send.
C35_EveryTickCompletes ==
    (/\ TwoClients
     /\ srv = "up"
     /\ closed = {}
     /\ gone = {}
     /\ dropt = {}
     /\ \A c \in Pair : Len(sent[c]) = Attempts(c))
    => ~BothWaitForever

\* C36: whatever JSON text a peer sends, the relay's event loop goes on,
\* and 'sent_to' is a list that holds only addresses of connections that
\* were sent a pair.
C36_SurvivesAnyJson ==
    /\ srv = "up"
    /\ DATA_BUFFER["sent_to"].t = "list"
    /\ \A k \in 1..Len(DATA_BUFFER["sent_to"].v) :
          /\ DATA_BUFFER["sent_to"].v[k] \in registered
          /\ delivered[DATA_BUFFER["sent_to"].v[k]] # <<>>

\* C37: a cannon takes hull from a plane at most once.  Hull is lost only
\* in Cannon.update; one update takes the cannon's damage from a plane at
\* most once and marks the cannon that took it; and every cannon the loop
\* has still to update is unmarked, so a marked cannon is never moved or
\* hit-checked in a later tick.
C37_HitsOnceThenGone ==
    /\ [](pc = "update" =>
            \A k \in ci..Len(cannons) : ~cannons[k].for_deletion)
    /\ [][\A i \in Players :
            planes'[i].hull_integrity < planes[i].hull_integrity =>
                /\ pc = "update" /\ ci <= Len(cannons)
                /\ planes'[i].hull_integrity =
                       planes[i].hull_integrity - cannons[ci].damage
                /\ cannons'[ci].for_deletion
                /\ cannons'[ci].updates = cannons[ci].updates + 1]_vars

\* A cannon marked by its hit in an earlier tick is gone from the list
\* when the cannon loop of this tick runs.
C37_Witness ==
    /\ pc = "update"
    /\ \E i \in Players :
          /\ planes[i].for_deletion
          /\ planes[i].hull_integrity <= 0
          /\ \A k \in 1..Len(cannons) : cannons[k].owner = i

\* C38: the update of a cannon never takes hull from the plane that fired
\* it, and a player's kill counter goes up only in the reset of the other
\* player's plane, which was destroyed with no hull left.
C38_NoSelfHit ==
    /\ [][pc = "update" /\ ci <= Len(cannons) =>
            planes'[cannons[ci].owner].hull_integrity =
                planes[cannons[ci].owner].hull_integrity]_vars
    /\ [][\A i \in Players :
            kills'[i] # kills[i] =>
                /\ kills'[i] = kills[i] + 1
                /\ pc = "reset" /\ cur = Other(i)
                /\ planes[Other(i)].for_deletion
                /\ planes[Other(i)].hull_integrity <= 0]_vars

\* C39: when a tick ends, every plane is drawn in a cell strictly inside
\* the arena.
C39_PlaneInsideArena ==
    pc = "read_key" =>
        \A i \in Players :
            ~any_hit(_hit_boundary(resolve(planes[i].coordinates)))

\* C40: while the start menu reads keys, and when it is left, exactly one
\* field is active, it is the field at the active index and it is visible,
\* no search for a visible field runs for ever, and the fields hidden are
\* those of the game type displayed: Host IP and Host port for Local,
\* Player 2 callsign and Player 2 plane for Network.
C40_OneVisibleActiveField ==
    /\ mpc # "hang"
    /\ mpc \in {"getch", "closed", "exit"} =>
          /\ Cardinality({i \in DOMAIN fields : fields[i].is_active}) = 1
          /\ fields[active_field_idx].is_active
          /\ fields[active_field_idx].is_visible
          /\ \A i \in DOMAIN fields :
                fields[i].is_visible =
                    IF fields[0].display_value = "Local"
                    THEN fields[i].label \notin {"Host IP", "Host port"}
                    ELSE fields[i].label \notin
                             {"Player 2 callsign", "Player 2 plane"}

\* Network was selected, the Host port field was reached and typed into,
\* and the menu was left.
C40_Witness ==
    /\ mpc = "closed"
    /\ fields[0].display_value = "Network"
    /\ active_field_idx = 2
    /\ fields[2].display_value # <<>>
    /\ fields[1].display_value = <<>>

====
